---- MODULE Spec2Model ----
(***************************************************************************)
(* State-machine model of the AR workflow builder.                         *)
(*                                                                         *)
(*  - Step Runtime: the ARRunner component (src/src/components/            *)
(*    ARRunner.tsx): step index, per-step countdown, AR display mode.      *)
(*  - Editor alignment: the Editor page (src/src/pages/Editor.tsx): PDF    *)
(*    selection, workflow generation, alignMode and activePage.            *)
(*  - Run page: RunPage (src/src/pages/Editor.tsx:354-443), which adapts   *)
(*    a fetched workflow and mounts the runtime on it.                     *)
(*  - Workflow Store: the HTTP API over one JSON file per workflow         *)
(*    (src/server/index.ts, src/unnamed/part_003).                         *)
(*  - Normalizers: normalizeWorkflow and normalizeGeneratedWorkflow of the *)
(*    server, applied to one input.                                        *)
(*  - WorkflowEditor: the step list component                              *)
(*    (src/src/components/WorkflowEditor.tsx).                             *)
(*  - Editor generation and auto-save: onGenerate, saveMutation and the    *)
(*    two server routes they call.                                         *)
(*  - Extraction repair: extractJsonFromText of the server.                *)
(*  - Project list: ProjectProvider                                        *)
(*    (src/src/context/ProjectContext.tsx).                                *)
(*                                                                         *)
(* A React event handler, the render it triggers and the effects of that   *)
(* render run to completion on the single JavaScript thread, so each       *)
(* handler together with its effects is one action.                        *)
(***************************************************************************)
EXTENDS Integers, Sequences, FiniteSets, TLC

VARIABLES
    \* ---- Step Runtime (ARRunner) ----
    steps,        \* the steps prop: a sequence of steps (durationSec only)
    status,       \* "unmounted" | "running" | "crashed" | "exited"
    currentStep,  \* useState(0), 0-based
    timeLeft,     \* useState(0)
    timerActive,  \* useState(false)
    arMode,       \* useState(false)
    interval,     \* the setInterval handle of the countdown effect:
                  \* "none" | "fresh" | "stale" ("stale": armed before the
                  \* latest step change or display-mode toggle)
    ticks,        \* history: ticks applied since the current step was entered
    rLast,        \* history: the last runtime operation
    rPrev,        \* history: the runtime state before the last operation
    \* ---- Editor (alignment) ----
    pdf,          \* useState<File|null>: 0 is null, else a file identity
    pdfUrl,       \* useState<string|null>: 0 is null, else the file's URL
    wfSteps,      \* useState<WorkflowStep[]>: the Editor's steps (page only)
    alignMode,    \* useState(false)
    activePage,   \* useState(1)
    generating,   \* useState(false)
    genClosure,   \* what the running onGenerate call captured: [alignMode]
    selected,     \* history: the step last handed to onSelectStep
    eLast,        \* history: the last Editor operation
    ePrev,        \* history: the Editor state before the last operation
    \* ---- Run page ----
    data,         \* useQuery data: the steps of the fetched workflow
    fetched,      \* history: the steps as the server answered them
    \* ---- Workflow Store (server) ----
    files,        \* DATA_DIR: storage key -> file content (tokens) or NoFile
    clock,        \* the time nowISO() reads
    uuids,        \* how many identifiers newUUID() has handed out
    served,       \* how many requests the server has been sent
    inflight,     \* requests between two awaits: writer -> its position, the
                  \* record it writes and (history) the record it found
    sLast,        \* history: the last request answered and its response
    \* ---- Normalizers (server, applied to one input) ----
    nFn,          \* which normalizer the input is for
    nIn,          \* the input: a request body, or the object the model wrote
    nOut,         \* Absent, or the outcome of applying the normalizer
    nAgain,       \* Absent, or the outcome of normalizing nOut once more
    \* ---- WorkflowEditor (step list component) ----
    weSteps,      \* the steps prop, as the parent holds it
    editingId,    \* useState<number|null>(null): Absent is null
    editText,     \* useState("")
    editTimer,    \* useState(0)
    wLast,        \* history: the last operation, where each step came from and
                  \* where the step startEdit was last invoked on is now
    \* ---- Editor (generation and auto-save) ----
    gPdf,         \* pdf: 0 is null, else a file identity
    gGenerating,  \* generating
    gTitle,       \* title: useState("")
    gSteps,       \* steps: title, description, durationSec, page of each
    genError,     \* useState<string|null>(null): Absent is null
    savedUUID,    \* useState<string|null>(null): Absent is null
    saveMutation, \* useMutation: its status and the variables of its last call
    genCall,      \* the running onGenerate call: the pdf it captured, the
                  \* request of generateWorkflowFromPdf and its response
    minted,       \* how many identifiers crypto.randomUUID() has handed out
    gLast,        \* history: the last operation of this part
    \* ---- Extraction repair (server, applied to one text) ----
    jIn,          \* Absent, or the text the model wrote and how it was built
    jOut,         \* Absent, or the outcome of extractJsonFromText
    \* ---- Project list (ProjectProvider) ----
    projects,     \* useState<Project[]>(mockProjects)
    timers,       \* the setTimeout callbacks not yet run: what each captured
    dateNow,      \* the value Date.now() reads
    added,        \* how many times addProject has been called
    pLast         \* history: the last operation on the list

runnerVars == <<steps, status, currentStep, timeLeft, timerActive, arMode,
                interval, ticks, rLast, rPrev>>
editorVars == <<pdf, pdfUrl, wfSteps, alignMode, activePage, generating,
                genClosure, selected, eLast, ePrev>>
pageVars == <<data, fetched>>
storeVars == <<files, clock, uuids, served, inflight, sLast>>
normVars == <<nFn, nIn, nOut, nAgain>>
listVars == <<weSteps, editingId, editText, editTimer, wLast>>
saveVars == <<gPdf, gGenerating, gTitle, gSteps, genError, savedUUID, saveMutation,
              genCall, minted, gLast>>
jsonVars == <<jIn, jOut>>
projVars == <<projects, timers, dateNow, added, pLast>>
vars == <<runnerVars, editorVars, pageVars, storeVars, normVars, listVars, saveVars,
          jsonVars, projVars>>

(***************************************************************************)
(* Bounds                                                                  *)
(***************************************************************************)
MaxSteps == 3   \* longest step list handed to the runtime
MaxDur == 2     \* largest durationSec of a step
MaxPage == 2    \* largest page number the generation service returns
MaxWfSteps == 2 \* longest step list held by the Editor
MaxFiles == 1   \* distinct PDF files the user can pick

(***************************************************************************)
(* Optional fields: <<>> is "absent" (undefined), <<v>> is the value v.    *)
(***************************************************************************)
Absent == <<>>
Some(v) == <<v>>
IsPresent(o) == o # <<>>
ValueOf(o) == o[1]

\* ======================================================================
\*                          STEP RUNTIME (ARRunner)
\* ======================================================================

\* durationSec as a caller can supply it: absent, negative, zero, positive.
DurationValues == {Absent} \cup {Some(d) : d \in -1..MaxDur}
RunnerStep == [durationSec : DurationValues]

RECURSIVE SeqsUpTo(_, _)
SeqsUpTo(S, n) ==
    IF n = 0 THEN {<<>>}
    ELSE LET shorter == SeqsUpTo(S, n - 1)
         IN shorter \cup {Append(s, x) : s \in {q \in shorter : Len(q) = n - 1}, x \in S}

StepLists == SeqsUpTo(RunnerStep, MaxSteps)

\* const step = steps[currentStep]  (undefined when out of range)
StepExists(i) == i >= 0 /\ i < Len(steps)

\* const duration = step?.durationSec ?? 0
Duration(i) ==
    IF StepExists(i) /\ IsPresent(steps[i + 1].durationSec)
    THEN ValueOf(steps[i + 1].durationSec)
    ELSE 0

\* step-entry effect: if (duration > 0) {setTimeLeft(duration); setTimerActive(true)}
\*                    else {setTimeLeft(0); setTimerActive(false)}
EntryTimeLeftTruthy(d) == IF d # 0 THEN d ELSE 0
EntryTimeLeft(d) == IF d > 0 THEN d ELSE 0

EntryTimerActiveKeep(d, active) == IF d > 0 THEN TRUE ELSE active
EntryTimerActive(d, active) == d > 0

\* countdown effect guard: if (!timerActive || timeLeft <= 0) return;
CountdownArmsAlways(active, t) == TRUE
CountdownArms(active, t) == active /\ t > 0

\* interval callback: setTimeLeft(t => { if (t <= 1) {setTimerActive(false); return 0}
\*                                       return t - 1 })
TickTimeLeft(t) == IF t <= 1 THEN 0 ELSE t - 1

TickTimerActiveLate(t, active) == IF t <= 0 THEN FALSE ELSE active
TickTimerActive(t, active) == IF t <= 1 THEN FALSE ELSE active

\* next: if (currentStep < steps.length - 1) setCurrentStep(c => c + 1)
NextIndexOffByOne(c, n) == IF c < n THEN c + 1 ELSE c
NextIndex(c, n) == IF c < n - 1 THEN c + 1 ELSE c

\* prev: if (currentStep > 0) setCurrentStep(c => c - 1)
PrevIndex(c) == IF c > 0 THEN c - 1 ELSE c

\* The countdown effect has dependencies [timerActive, timeLeft]: when either
\* changed, its cleanup clears the interval and the effect arms a new one if
\* the guard allows; when neither changed, the old interval stays pending
\* (and, when the event was a step change or a mode toggle, it is now one
\* that was scheduled before that event).
IntervalAfter(oldActive, oldT, newActive, newT, old, marks) ==
    IF <<newActive, newT>> # <<oldActive, oldT>>
    THEN IF CountdownArms(newActive, newT) THEN "fresh" ELSE "none"
    ELSE IF old # "none" /\ marks THEN "stale" ELSE old

RunnerSnapshot ==
    [status |-> status, currentStep |-> currentStep, timeLeft |-> timeLeft,
     timerActive |-> timerActive, interval |-> interval, arMode |-> arMode]

RunnerInit ==
    /\ steps \in StepLists
    /\ status = "unmounted"
    /\ currentStep = 0
    /\ timeLeft = 0
    /\ timerActive = FALSE
    /\ arMode = FALSE
    /\ interval = "none"
    /\ ticks = 0
    /\ rLast = "Init"
    /\ rPrev = [status |-> "unmounted", currentStep |-> 0, timeLeft |-> 0,
                timerActive |-> FALSE, interval |-> "none", arMode |-> FALSE]

\* The render reads step.title (ARRunner.tsx:126): it throws when the current
\* step does not exist.  The error unmounts the component, whose effect
\* cleanups clear the interval.
Crash ==
    /\ status' = "crashed"
    /\ interval' = "none"

\* Effects after a render that entered step i (currentStep changed, or mount).
EnterStep(i, oldActive, oldT, old) ==
    LET d == Duration(i)
        newT == EntryTimeLeft(d)
        newActive == EntryTimerActive(d, oldActive)
    IN /\ timeLeft' = newT
       /\ timerActive' = newActive
       /\ interval' = IntervalAfter(oldActive, oldT, newActive, newT, old, TRUE)
       /\ ticks' = 0

\* Load(workflow): <ARRunner steps={...}/> is mounted.
Load ==
    /\ status = "unmounted"
    /\ rLast' = "Load"
    /\ rPrev' = RunnerSnapshot
    /\ currentStep' = 0
    /\ arMode' = FALSE
    /\ IF StepExists(0)
       THEN /\ status' = "running"
            /\ EnterStep(0, FALSE, 0, "none")
       ELSE /\ Crash
            /\ UNCHANGED <<timeLeft, timerActive, ticks>>
    /\ UNCHANGED steps
    /\ UNCHANGED <<editorVars, pageVars, storeVars, normVars, listVars, saveVars, jsonVars, projVars>>

\* A navigation handler that computed the new index c.
Navigate(c) ==
    /\ currentStep' = c
    /\ IF c = currentStep
       THEN UNCHANGED <<status, timeLeft, timerActive, interval, ticks>>
       ELSE IF StepExists(c)
            THEN /\ EnterStep(c, timerActive, timeLeft, interval)
                 /\ UNCHANGED status
            ELSE /\ Crash
                 /\ UNCHANGED <<timeLeft, timerActive, ticks>>
    /\ UNCHANGED <<steps, arMode>>

Next ==
    /\ status = "running"
    /\ rLast' = "Next"
    /\ rPrev' = RunnerSnapshot
    /\ Navigate(NextIndex(currentStep, Len(steps)))
    /\ UNCHANGED <<editorVars, pageVars, storeVars, normVars, listVars, saveVars, jsonVars, projVars>>

Prev ==
    /\ status = "running"
    /\ rLast' = "Prev"
    /\ rPrev' = RunnerSnapshot
    /\ Navigate(PrevIndex(currentStep))
    /\ UNCHANGED <<editorVars, pageVars, storeVars, normVars, listVars, saveVars, jsonVars, projVars>>

\* The interval callback fires (only a pending interval can fire).
Tick ==
    /\ status = "running"
    /\ interval # "none"
    /\ rLast' = "Tick"
    /\ rPrev' = RunnerSnapshot
    /\ timeLeft' = TickTimeLeft(timeLeft)
    /\ timerActive' = TickTimerActive(timeLeft, timerActive)
    /\ interval' = IntervalAfter(timerActive, timeLeft, timerActive', timeLeft',
                                 interval, FALSE)
    /\ ticks' = IF ticks <= MaxDur + 1 THEN ticks + 1 ELSE ticks
    /\ UNCHANGED <<steps, status, currentStep, arMode>>
    /\ UNCHANGED <<editorVars, pageVars, storeVars, normVars, listVars, saveVars, jsonVars, projVars>>

\* The display-mode button: setArMode(!arMode).  No effect depends on arMode.
ToggleArMode ==
    /\ status = "running"
    /\ rLast' = "ToggleArMode"
    /\ rPrev' = RunnerSnapshot
    /\ arMode' = ~arMode
    /\ interval' = IntervalAfter(timerActive, timeLeft, timerActive, timeLeft,
                                 interval, TRUE)
    /\ UNCHANGED <<steps, status, currentStep, timeLeft, timerActive, ticks>>
    /\ UNCHANGED <<editorVars, pageVars, storeVars, normVars, listVars, saveVars, jsonVars, projVars>>

\* onExit: the parent unmounts the component; cleanup clears the interval and
\* the component state is discarded.
Exit ==
    /\ status = "running"
    /\ rLast' = "Exit"
    /\ rPrev' = RunnerSnapshot
    /\ status' = "exited"
    /\ interval' = "none"
    /\ currentStep' = 0
    /\ timeLeft' = 0
    /\ timerActive' = FALSE
    /\ arMode' = FALSE
    /\ ticks' = 0
    /\ UNCHANGED steps
    /\ UNCHANGED <<editorVars, pageVars, storeVars, normVars, listVars, saveVars, jsonVars, projVars>>

RunnerNext ==
    \/ Load
    \/ Next
    \/ Prev
    \/ Tick
    \/ ToggleArMode
    \/ Exit

\* ----------------------------------------------------------------------
\* Step Runtime: properties
\* ----------------------------------------------------------------------

\* The timer sub-state of the spec, read off the component state.
Running == timerActive /\ timeLeft > 0
Stopped == ~timerActive /\ timeLeft = 0

\* The current step's durationSec is present and > 0.
CurrentHasTimer ==
    /\ StepExists(currentStep)
    /\ IsPresent(steps[currentStep + 1].durationSec)
    /\ ValueOf(steps[currentStep + 1].durationSec) > 0

CurrentDurationSec == ValueOf(steps[currentStep + 1].durationSec)

\* The last operation left the whole runtime state as it was.
RuntimeUnchanged ==
    /\ status = rPrev.status
    /\ currentStep = rPrev.currentStep
    /\ timeLeft = rPrev.timeLeft
    /\ timerActive = rPrev.timerActive
    /\ interval = rPrev.interval

\* C1 (as claimed): for every step list a caller can pass, once the runtime
\* is loaded the step index is within 0..N-1 (the current step exists) and
\* no operation has raised an exception.
C1_IndexInRangeNoException ==
    status \in {"running", "crashed"} =>
        /\ 0 <= currentStep
        /\ currentStep <= Len(steps) - 1
        /\ status # "crashed"

\* C2: Next at index i < N-1 moves to exactly i+1 and Prev at i > 0 moves to
\* exactly i-1; Next at the last index and Prev at index 0 leave the whole
\* runtime state (index, remaining time, timer sub-state) unchanged.
C2_NextPrevExact ==
    /\ rLast = "Next" =>
          IF rPrev.currentStep < Len(steps) - 1
          THEN currentStep = rPrev.currentStep + 1 /\ status = "running"
          ELSE RuntimeUnchanged
    /\ rLast = "Prev" =>
          IF rPrev.currentStep > 0
          THEN currentStep = rPrev.currentStep - 1 /\ status = "running"
          ELSE RuntimeUnchanged

\* C2 witness: Next pressed at the last index of a list of several steps
\* while that step's countdown was running.
C2_Witness ==
    /\ rLast = "Next"
    /\ Len(steps) > 1
    /\ rPrev.currentStep = Len(steps) - 1
    /\ rPrev.timerActive /\ rPrev.timeLeft > 0

\* C3: Load (of a list that has a step 0) enters step 0, and every entry
\* into a step by Load, Next or Prev sets the timer to Running(durationSec)
\* when durationSec is present and > 0 and to Idle (stopped at 0) otherwise,
\* whatever remained of the step left behind.
C3_EntryResetsTimer ==
    /\ (rLast = "Load" /\ status = "running") => currentStep = 0
    /\ ( /\ status = "running"
         /\ \/ rLast = "Load"
            \/ rLast \in {"Next", "Prev"} /\ currentStep # rPrev.currentStep )
       => IF CurrentHasTimer
          THEN timerActive /\ timeLeft = CurrentDurationSec
          ELSE Stopped

\* C3 witness: Prev re-enters an earlier step while the step left behind
\* still had a different remaining time on a running countdown.
C3_Witness ==
    /\ status = "running"
    /\ rLast = "Prev"
    /\ rPrev.currentStep = currentStep + 1
    /\ rPrev.timerActive /\ rPrev.timeLeft > 0
    /\ rPrev.timeLeft # timeLeft

\* C4: a Tick at Running(r) yields Running(r-1) when r > 1 and Expired, with
\* no further tick pending, when r = 1; so on a step with durationSec = N
\* the timer is Running(N - k) after k < N ticks and Expired after exactly N.
C4_TickCountdown ==
    /\ rLast = "Tick" =>
          /\ (rPrev.timerActive /\ rPrev.timeLeft > 1) =>
                (timerActive /\ timeLeft = rPrev.timeLeft - 1)
          /\ (rPrev.timerActive /\ rPrev.timeLeft = 1) =>
                (Stopped /\ interval = "none")
    /\ (status = "running" /\ CurrentHasTimer) =>
          /\ ticks <= CurrentDurationSec
          /\ ticks < CurrentDurationSec =>
                (timerActive /\ timeLeft = CurrentDurationSec - ticks)
          /\ ticks = CurrentDurationSec => Stopped

\* C4 witness: a step of at least two seconds has just expired by a tick.
C4_Witness ==
    /\ status = "running"
    /\ rLast = "Tick"
    /\ CurrentHasTimer
    /\ CurrentDurationSec >= 2
    /\ ticks = CurrentDurationSec
    /\ Stopped

\* C5: the remaining seconds are never negative.
C5_TimeLeftNonNegative == timeLeft >= 0 /\ rPrev.timeLeft >= 0

\* C5 witness: a step whose durationSec is negative was entered by
\* navigation from a step whose countdown had been ticking.
C5_Witness ==
    /\ status = "running"
    /\ rLast \in {"Next", "Prev"}
    /\ currentStep # rPrev.currentStep
    /\ IsPresent(steps[currentStep + 1].durationSec)
    /\ ValueOf(steps[currentStep + 1].durationSec) < 0
    /\ rPrev.timerActive

\* C6: ticking is suspended whenever the timer is not Running: no interval
\* is pending on an idle or expired step, and a tick is only ever applied to
\* a Running timer.
C6_TickingSuspended ==
    /\ (status = "running" /\ ~Running) => interval = "none"
    /\ rLast = "Tick" => (rPrev.timerActive /\ rPrev.timeLeft > 0)

\* C6 witness: a timed step has expired and another event (the display-mode
\* toggle) has been handled since, without a step being entered.
C6_Witness ==
    /\ status = "running"
    /\ CurrentHasTimer
    /\ Stopped
    /\ ticks = CurrentDurationSec
    /\ rLast = "ToggleArMode"

\* C7 (as claimed): the countdown is cancelled on step change, on the mode
\* toggle and on teardown: no pending interval was scheduled before the
\* latest of these events, and none is pending once the runtime is gone.
C7_CancelledImmediately ==
    /\ interval # "stale"
    /\ status # "running" => interval = "none"


\* ======================================================================
\*                          EDITOR (alignment)
\* ======================================================================

\* page as the generation service may return it, in half-units so that the
\* floor of normalization is visible: Some(h) stands for the number h/2.
RawPages == {Absent} \cup {Some(h) : h \in 0..(2 * MaxPage + 1)}

\* normalizeGeneratedWorkflow: if (typeof s.page === "number" &&
\*   Number.isFinite(s.page) && s.page >= 1) page = Math.floor(s.page)
NormalizeGeneratedPage(raw) ==
    IF IsPresent(raw) /\ ValueOf(raw) >= 2
    THEN Some(ValueOf(raw) \div 2)
    ELSE Absent

\* onGenerate: page: typeof s.page === "number" ? s.page : undefined
EditorStepOf(raw) == [page |-> NormalizeGeneratedPage(raw)]

\* What POST /api/generate-workflow answers with: the raw steps normalized.
GeneratedResponses ==
    {[i \in 1..Len(r) |-> EditorStepOf(r[i])] : r \in SeqsUpTo(RawPages, MaxWfSteps)}

\* steps.find((x) => typeof x.page === "number")?.page
FirstPage(ss) ==
    LET paged == {i \in 1..Len(ss) : IsPresent(ss[i].page)}
    IN IF paged = {} THEN Absent
       ELSE ss[CHOOSE i \in paged : \A j \in paged : i <= j].page

\* if (firstPage) setActivePage(firstPage)   -- a truthiness test
Truthy(o) == IsPresent(o) /\ ValueOf(o) # 0

\* onGenerate: if (alignMode && firstPage) setActivePage(firstPage), where
\* alignMode is the value the call captured when it started.
GeneratedActivePageAnyMode(capturedAlign, ss, cur) ==
    IF Truthy(FirstPage(ss)) THEN ValueOf(FirstPage(ss)) ELSE cur
GeneratedActivePage(capturedAlign, ss, cur) ==
    IF capturedAlign /\ Truthy(FirstPage(ss)) THEN ValueOf(FirstPage(ss)) ELSE cur

\* onToggleAlign: if (!alignMode) { firstPage = ...; if (firstPage) setActivePage(firstPage) }
ToggledActivePageBothWays(align, ss, cur) ==
    IF Truthy(FirstPage(ss)) THEN ValueOf(FirstPage(ss)) ELSE cur
ToggledActivePage(align, ss, cur) ==
    IF ~align /\ Truthy(FirstPage(ss)) THEN ValueOf(FirstPage(ss)) ELSE cur

\* onSelectStep: if (!alignMode) return;
\*   if (typeof step.page === "number" && step.page >= 1) setActivePage(step.page)
SelectedActivePageUnguarded(align, step, cur) ==
    IF IsPresent(step.page) /\ ValueOf(step.page) >= 1
    THEN ValueOf(step.page) ELSE cur
SelectedActivePage(align, step, cur) ==
    IF align /\ IsPresent(step.page) /\ ValueOf(step.page) >= 1
    THEN ValueOf(step.page) ELSE cur

EditorSnapshot ==
    [alignMode |-> alignMode, activePage |-> activePage, pdfUrl |-> pdfUrl,
     genAlign |-> genClosure.alignMode]

EditorInit ==
    /\ pdf = 0
    /\ pdfUrl = 0
    /\ wfSteps = <<>>
    /\ alignMode = FALSE
    /\ activePage = 1
    /\ generating = FALSE
    /\ genClosure = [alignMode |-> FALSE]
    /\ selected = Absent
    /\ eLast = "Init"
    /\ ePrev = [alignMode |-> FALSE, activePage |-> 1, pdfUrl |-> 0,
                genAlign |-> FALSE]

\* onPickFile(file), then the [pdf] effect: it sets pdfUrl to the file's
\* object URL, or with no file clears pdfUrl, alignMode and activePage.
OnPickFile ==
    \E file \in 0..MaxFiles :
        /\ eLast' = "PickFile"
        /\ ePrev' = EditorSnapshot
        /\ wfSteps' = <<>>
        /\ pdf' = file
        /\ pdfUrl' = file
        /\ alignMode' = FALSE
        /\ activePage' = 1
        /\ selected' = Absent
        /\ UNCHANGED <<generating, genClosure>>
        /\ UNCHANGED <<runnerVars, pageVars, storeVars, normVars, listVars, saveVars, jsonVars, projVars>>

\* onGenerate up to its await; the button is disabled unless canGenerate.
OnGenerateStart ==
    /\ pdf # 0
    /\ ~generating
    /\ eLast' = "GenerateStart"
    /\ ePrev' = EditorSnapshot
    /\ generating' = TRUE
    /\ genClosure' = [alignMode |-> alignMode]
    /\ UNCHANGED <<pdf, pdfUrl, wfSteps, alignMode, activePage, selected>>
    /\ UNCHANGED <<runnerVars, pageVars, storeVars, normVars, listVars, saveVars, jsonVars, projVars>>

\* onGenerate after the await, the request having succeeded.
OnGenerateDone ==
    \E resp \in GeneratedResponses :
        /\ generating
        /\ eLast' = "GenerateDone"
        /\ ePrev' = EditorSnapshot
        /\ wfSteps' = resp
        /\ activePage' = GeneratedActivePage(genClosure.alignMode, resp, activePage)
        /\ generating' = FALSE
        /\ selected' = Absent
        /\ UNCHANGED <<pdf, pdfUrl, alignMode, genClosure>>
        /\ UNCHANGED <<runnerVars, pageVars, storeVars, normVars, listVars, saveVars, jsonVars, projVars>>

\* onGenerate after the await, the request having failed (catch, finally).
OnGenerateFail ==
    /\ generating
    /\ eLast' = "GenerateFail"
    /\ ePrev' = EditorSnapshot
    /\ generating' = FALSE
    /\ UNCHANGED <<pdf, pdfUrl, wfSteps, alignMode, activePage, genClosure, selected>>
    /\ UNCHANGED <<runnerVars, pageVars, storeVars, normVars, listVars, saveVars, jsonVars, projVars>>

\* onToggleAlign: `if (!pdfUrl) return;`
ToggleAllowedAlways(url) == TRUE
ToggleAllowed(url) == url # 0

OnToggleAlign ==
    /\ eLast' = "ToggleAlign"
    /\ ePrev' = EditorSnapshot
    /\ IF ~ToggleAllowed(pdfUrl)
       THEN UNCHANGED <<alignMode, activePage>>
       ELSE /\ alignMode' = ~alignMode
            /\ activePage' = ToggledActivePage(alignMode, wfSteps, activePage)
    /\ UNCHANGED <<pdf, pdfUrl, wfSteps, generating, genClosure, selected>>
    /\ UNCHANGED <<runnerVars, pageVars, storeVars, normVars, listVars, saveVars, jsonVars, projVars>>

\* onSelectStep(step), with a step of the list on display.
OnSelectStep ==
    \E i \in 1..Len(wfSteps) :
        /\ eLast' = "SelectStep"
        /\ ePrev' = EditorSnapshot
        /\ selected' = Some(wfSteps[i])
        /\ activePage' = SelectedActivePage(alignMode, wfSteps[i], activePage)
        /\ UNCHANGED <<pdf, pdfUrl, wfSteps, alignMode, generating, genClosure>>
        /\ UNCHANGED <<runnerVars, pageVars, storeVars, normVars, listVars, saveVars, jsonVars, projVars>>

\* WorkflowEditor with onUpdate = setSteps.  Its handlers rewrite id, text
\* and timer and never touch page.
\* handleReorder: the dragged item changes place with its neighbour.
HandleReorder ==
    \E i \in 1..(Len(wfSteps) - 1) :
        /\ eLast' = "Reorder"
        /\ ePrev' = EditorSnapshot
        /\ wfSteps' = [wfSteps EXCEPT ![i] = wfSteps[i + 1], ![i + 1] = wfSteps[i]]
        /\ UNCHANGED <<pdf, pdfUrl, alignMode, activePage, generating, genClosure, selected>>
        /\ UNCHANGED <<runnerVars, pageVars, storeVars, normVars, listVars, saveVars, jsonVars, projVars>>

\* deleteStep(step.id)
DeleteStep ==
    \E i \in 1..Len(wfSteps) :
        /\ eLast' = "DeleteStep"
        /\ ePrev' = EditorSnapshot
        /\ wfSteps' = [j \in 1..(Len(wfSteps) - 1) |->
                          IF j < i THEN wfSteps[j] ELSE wfSteps[j + 1]]
        /\ UNCHANGED <<pdf, pdfUrl, alignMode, activePage, generating, genClosure, selected>>
        /\ UNCHANGED <<runnerVars, pageVars, storeVars, normVars, listVars, saveVars, jsonVars, projVars>>

\* addStep: the new step has no page.  (The editor is rendered only while
\* the list is non-empty.)
AddStep ==
    /\ Len(wfSteps) >= 1
    /\ Len(wfSteps) < MaxWfSteps
    /\ eLast' = "AddStep"
    /\ ePrev' = EditorSnapshot
    /\ wfSteps' = Append(wfSteps, [page |-> Absent])
    /\ UNCHANGED <<pdf, pdfUrl, alignMode, activePage, generating, genClosure, selected>>
    /\ UNCHANGED <<runnerVars, pageVars, storeVars, normVars, listVars, saveVars, jsonVars, projVars>>

\* saveEdit: text and timer of one step change, its page does not.
SaveEdit ==
    /\ Len(wfSteps) >= 1
    /\ eLast' = "SaveEdit"
    /\ ePrev' = EditorSnapshot
    /\ UNCHANGED <<pdf, pdfUrl, wfSteps, alignMode, activePage, generating, genClosure, selected>>
    /\ UNCHANGED <<runnerVars, pageVars, storeVars, normVars, listVars, saveVars, jsonVars, projVars>>

EditorNext ==
    \/ OnPickFile
    \/ OnGenerateStart
    \/ OnGenerateDone
    \/ OnGenerateFail
    \/ OnToggleAlign
    \/ OnSelectStep
    \/ HandleReorder
    \/ DeleteStep
    \/ AddStep
    \/ SaveEdit

\* ----------------------------------------------------------------------
\* Editor alignment: properties
\* ----------------------------------------------------------------------

\* Some step of the Editor's list has a defined page.
SomeStepHasPage == \E i \in 1..Len(wfSteps) : IsPresent(wfSteps[i].page)

\* activePage is the page of the first step that has a defined page.
AtFirstDefinedPage ==
    \E i \in 1..Len(wfSteps) :
        /\ IsPresent(wfSteps[i].page)
        /\ \A j \in 1..(i - 1) : ~IsPresent(wfSteps[j].page)
        /\ activePage = ValueOf(wfSteps[i].page)

\* The step last selected, if any, has a defined page.
SelectedHasPage == IsPresent(selected) /\ IsPresent(ValueOf(selected).page)

EditSteps == {"Reorder", "DeleteStep", "AddStep", "SaveEdit"}

\* C8 (as claimed): only ToggleAlign and SelectStep change activePage; every
\* other operation (generating a workflow, editing steps, picking a file)
\* leaves it unchanged.
C8_OnlyToggleAndSelect ==
    eLast \notin {"Init", "ToggleAlign", "SelectStep"} =>
        activePage = ePrev.activePage

\* C8 (amended): besides ToggleAlign and SelectStep, onPickFile resets
\* activePage to 1 and the completion of a generation that was started while
\* Aligned sets it to the page of the first generated step that has one;
\* starting or failing a generation and editing steps leave it unchanged.
C8_ActivePageWriters ==
    /\ eLast \in EditSteps \cup {"GenerateStart", "GenerateFail"} =>
          activePage = ePrev.activePage
    /\ eLast = "PickFile" => activePage = 1
    /\ eLast = "GenerateDone" =>
          IF ePrev.genAlign /\ SomeStepHasPage
          THEN AtFirstDefinedPage
          ELSE activePage = ePrev.activePage

\* C8 witness: a generation started while Aligned completes after another
\* file was picked (alignment is off again) and moves activePage.
C8_Witness ==
    /\ eLast = "GenerateDone"
    /\ ~alignMode
    /\ activePage # ePrev.activePage

\* C9 (as claimed): with a PDF loaded, ToggleAlign flips the flag; into
\* Aligned, activePage becomes the page of the last selected step if it has
\* one, else the page of the first step with a defined page; into Unaligned,
\* and when no step has a page, activePage is unchanged.
C9_ToggleUsesCurrentStep ==
    (eLast = "ToggleAlign" /\ ePrev.pdfUrl # 0) =>
        /\ alignMode = ~ePrev.alignMode
        /\ IF ~alignMode THEN activePage = ePrev.activePage
           ELSE IF SelectedHasPage
                THEN activePage = ValueOf(ValueOf(selected).page)
                ELSE IF SomeStepHasPage THEN AtFirstDefinedPage
                     ELSE activePage = ePrev.activePage

\* C9 (amended): with a PDF loaded, ToggleAlign flips the flag; into Aligned,
\* activePage becomes the page of the first step with a defined page,
\* whichever step was selected last; into Unaligned, and when no step has a
\* page, activePage is unchanged.  Without a PDF it changes nothing.
C9_ToggleUsesFirstPage ==
    eLast = "ToggleAlign" =>
        IF ePrev.pdfUrl = 0
        THEN alignMode = ePrev.alignMode /\ activePage = ePrev.activePage
        ELSE /\ alignMode = ~ePrev.alignMode
             /\ IF alignMode /\ SomeStepHasPage
                THEN AtFirstDefinedPage
                ELSE activePage = ePrev.activePage

\* C9 witness: alignment is switched on after a step with another page than
\* the first paged step's was selected, and activePage moves.
C9_Witness ==
    /\ eLast = "ToggleAlign"
    /\ alignMode
    /\ SelectedHasPage
    /\ activePage # ValueOf(ValueOf(selected).page)
    /\ activePage # ePrev.activePage

\* C10: SelectStep while Aligned sets activePage to the step's page when it
\* has one and changes nothing when it has none; SelectStep while Unaligned
\* changes nothing.  The alignment flag is never changed by it.
C10_SelectStep ==
    eLast = "SelectStep" =>
        /\ alignMode = ePrev.alignMode
        /\ pdfUrl = ePrev.pdfUrl
        /\ IF ePrev.alignMode /\ SelectedHasPage
           THEN activePage = ValueOf(ValueOf(selected).page)
           ELSE activePage = ePrev.activePage

\* C10 witness: a step with a page is selected while Aligned and the viewer
\* moves to it.
C10_Witness ==
    /\ eLast = "SelectStep"
    /\ alignMode
    /\ SelectedHasPage
    /\ activePage # ePrev.activePage

\* C36: alignMode is true only while a PDF is selected (pdf and pdfUrl
\* non-null); picking a file or clearing the selection leaves alignMode
\* false and activePage 1; and ToggleAlign changes neither while no PDF
\* is loaded.
C36_AlignOnlyWithPdf ==
    /\ alignMode => (pdf # 0 /\ pdfUrl # 0)
    /\ eLast = "PickFile" => (~alignMode /\ activePage = 1)
    /\ (eLast = "ToggleAlign" /\ ePrev.pdfUrl = 0) =>
           (alignMode = ePrev.alignMode /\ activePage = ePrev.activePage)

\* a file is picked, or the selection cleared, while alignMode was on and
\* a page other than the first was shown
C36_Witness ==
    /\ eLast = "PickFile"
    /\ ePrev.alignMode
    /\ ePrev.activePage # 1
    /\ ~alignMode
    /\ activePage = 1

\* ======================================================================
\*                          RUN PAGE (RunPage)
\* ======================================================================

MaxDataSteps == 2 \* longest step list of a fetched workflow
MaxOrder == 2     \* largest order value of a fetched step

\* A step as the server answers it (BackendStep): its order and, as the
\* server normalized it, a durationSec that is absent or a positive integer.
BackendStep == [order : 1..MaxOrder,
                durationSec : {Absent} \cup {Some(d) : d \in 1..MaxDur}]
BackendStepLists == SeqsUpTo(BackendStep, MaxDataSteps)

\* backendSteps.sort((a, b) => a.order - b.order): Array.prototype.sort is
\* stable and sorts the array it is called on.
RECURSIVE SortByOrderFrom(_, _)
SortByOrderFrom(ss, k) ==
    IF k > MaxOrder THEN <<>>
    ELSE SelectSeq(ss, LAMBDA s : s.order = k) \o SortByOrderFrom(ss, k + 1)
SortByOrder(ss) == SortByOrderFrom(ss, 1)

\* .map((s) => ({ id, title, description, durationSec, page })): a new array
\* of new objects; the runtime reads durationSec.
AdaptSteps(ss) == [i \in 1..Len(ss) |-> [durationSec |-> ss[i].durationSec]]

\* The query has resolved: data is what the server answered.
PageInit ==
    /\ data \in BackendStepLists
    /\ fetched = data

\* No workflow has been fetched.
PageIdle ==
    /\ data = <<>>
    /\ fetched = <<>>

\* RunPage renders with the fetched workflow: steps = adaptSteps(data.steps)
\* sorts data.steps in place, and <ARRunner steps={steps}/> mounts on the
\* adapted copy.
RunPageLoad ==
    LET sorted == SortByOrder(data)
        adapted == AdaptSteps(sorted)
        d == IF Len(adapted) > 0 /\ IsPresent(adapted[1].durationSec)
             THEN ValueOf(adapted[1].durationSec)
             ELSE 0
    IN /\ status = "unmounted"
       /\ rLast' = "Load"
       /\ rPrev' = RunnerSnapshot
       /\ data' = sorted
       /\ steps' = adapted
       /\ currentStep' = 0
       /\ arMode' = FALSE
       /\ IF Len(adapted) > 0
          THEN /\ status' = "running"
               /\ timeLeft' = EntryTimeLeft(d)
               /\ timerActive' = EntryTimerActive(d, FALSE)
               /\ interval' = IntervalAfter(FALSE, 0, EntryTimerActive(d, FALSE),
                                            EntryTimeLeft(d), "none", TRUE)
               /\ ticks' = 0
          ELSE /\ Crash
               /\ UNCHANGED <<timeLeft, timerActive, ticks>>
       /\ UNCHANGED fetched
       /\ UNCHANGED <<editorVars, storeVars, normVars, listVars, saveVars, jsonVars, projVars>>

RunPageNext ==
    \/ RunPageLoad
    \/ Next
    \/ Prev
    \/ Tick
    \/ ToggleArMode
    \/ Exit

\* ----------------------------------------------------------------------
\* Run page: properties
\* ----------------------------------------------------------------------

\* C11 (as claimed): loading and playing a workflow never mutates it: after
\* Load and any sequence of Next, Prev, Tick and Exit, the workflow the
\* runtime was given (the step sequence, the position of every step in it,
\* every step field) is what it was before Load.
C11_WorkflowNeverMutated ==
    status # "unmounted" => data = fetched

\* ======================================================================
\*                          WORKFLOW STORE (server)
\* ======================================================================

MaxRequests == 3 \* requests sent to the server in one run
MaxTime == 2     \* latest instant the server clock reaches

\* ---- Text ----
\* A string is the sequence of its characters.

\* The characters /[^a-zA-Z0-9-_]/ does not match.
SafeChars ==
    {"a", "b", "c", "d", "e", "f", "g", "h", "i", "j", "k", "l", "m",
     "n", "o", "p", "q", "r", "s", "t", "u", "v", "w", "x", "y", "z",
     "A", "B", "C", "D", "E", "F", "G", "H", "I", "J", "K", "L", "M",
     "N", "O", "P", "Q", "R", "S", "T", "U", "V", "W", "X", "Y", "Z",
     "0", "1", "2", "3", "4", "5", "6", "7", "8", "9", "-", "_"}

\* safeId: id.replace(/[^a-zA-Z0-9-_]/g, "")
SafeIdUnfiltered(id) == id
SafeId(id) == SelectSeq(id, LAMBDA c : c \in SafeChars)

\* String.prototype.trim (the model's only white space is " ").
RECURSIVE TrimStart(_)
TrimStart(s) == IF s # <<>> /\ Head(s) = " " THEN TrimStart(Tail(s)) ELSE s
RECURSIVE TrimEnd(_)
TrimEnd(s) ==
    IF s # <<>> /\ s[Len(s)] = " " THEN TrimEnd(SubSeq(s, 1, Len(s) - 1)) ELSE s
Trim(s) == TrimEnd(TrimStart(s))

\* Number to decimal text, as a template literal `${n}` writes it.
RECURSIVE Numeral(_)
Numeral(n) ==
    LET digit == <<"0", "1", "2", "3", "4", "5", "6", "7", "8", "9">>
    IN IF n < 10 THEN <<digit[n + 1]>>
       ELSE Numeral(n \div 10) \o <<digit[(n % 10) + 1]>>

\* `step-${idx + 1}` and `Step ${idx + 1}`, for the 1-based position n.
StepIdAt(n) == <<"s", "t", "e", "p", "-">> \o Numeral(n)
StepTitleAt(n) == <<"S", "t", "e", "p", " ">> \o Numeral(n)

\* crypto.randomUUID(): the n-th identifier handed out; no two are equal and
\* none equals an identifier a client made up.
NewUUID(n) == <<"u">> \o Numeral(n)

\* ---- Numbers ----
\* A JSON number is counted in quarters, so that rounding and flooring are
\* visible: q stands for q/4, and Whole(n) is the integer n.
Whole(n) == 4 * n
\* Math.round and Math.floor of a positive number, as whole numbers.
RoundOf(q) == Whole((q + 2) \div 4)
FloorOf(q) == Whole(q \div 4)

\* a string that is present and not "" (what || and && test)
TruthyText(o) == IsPresent(o) /\ ValueOf(o) # <<>>

\* ---- validateIncoming ----
\* A request body is Absent or Some(object); an object's fields are each
\* Absent or Some(value); steps is Some(list) exactly when it is an array.
ValidateStepsFirst(body) ==
    IF ~IsPresent(body) THEN [ok |-> FALSE, error |-> "Missing body"]
    ELSE LET b == ValueOf(body)
         IN IF ~IsPresent(b.steps)
            THEN [ok |-> FALSE, error |-> "steps must be an array"]
            ELSE IF Len(ValueOf(b.steps)) = 0
            THEN [ok |-> FALSE, error |-> "steps must not be empty"]
            ELSE IF ~IsPresent(b.name) \/ Trim(ValueOf(b.name)) = <<>>
            THEN [ok |-> FALSE, error |-> "Missing name"]
            ELSE [ok |-> TRUE, error |-> ""]
ValidateIncoming(body) ==
    IF ~IsPresent(body) THEN [ok |-> FALSE, error |-> "Missing body"]
    ELSE LET b == ValueOf(body)
         IN IF ~IsPresent(b.name) \/ Trim(ValueOf(b.name)) = <<>>
            THEN [ok |-> FALSE, error |-> "Missing name"]
            ELSE IF ~IsPresent(b.steps)
            THEN [ok |-> FALSE, error |-> "steps must be an array"]
            ELSE IF Len(ValueOf(b.steps)) = 0
            THEN [ok |-> FALSE, error |-> "steps must not be empty"]
            ELSE [ok |-> TRUE, error |-> ""]

\* ---- normalizeWorkflow ----
\* body.steps.map((s, idx) => ({...})), for the 1-based position n = idx + 1.
\* A stored step is a JSON object: its fields are Absent or Some(value).
NormalizeStep(s, n) ==
    [stepId |-> Some(SafeId(IF TruthyText(s.stepId) THEN ValueOf(s.stepId)
                            ELSE StepIdAt(n))),
     order |-> IF IsPresent(s.order) THEN s.order ELSE Some(Whole(n)),
     title |-> IF IsPresent(s.title) /\ Trim(ValueOf(s.title)) # <<>>
               THEN Some(Trim(ValueOf(s.title)))
               ELSE Some(StepTitleAt(n)),
     description |-> s.description,
     durationSec |-> IF IsPresent(s.durationSec) /\ ValueOf(s.durationSec) > 0
                     THEN Some(RoundOf(ValueOf(s.durationSec)))
                     ELSE Absent,
     page |-> IF IsPresent(s.page) /\ ValueOf(s.page) >= Whole(1)
              THEN Some(FloorOf(ValueOf(s.page)))
              ELSE Absent]

\* body.workflowUUID || newUUID(): whether newUUID() is called
NeedsNewUUID(b) == ~TruthyText(b.workflowUUID)

\* normalizeWorkflow(body), with fresh the value newUUID() would return and
\* now the instant nowISO() reads (both reads of one call see one instant).
NormalizeWorkflow(b, fresh, now) ==
    LET workflowUUID == SafeId(IF NeedsNewUUID(b) THEN fresh
                               ELSE ValueOf(b.workflowUUID))
        workflowId == SafeId(IF TruthyText(b.workflowId) THEN ValueOf(b.workflowId)
                             ELSE workflowUUID)
        raw == ValueOf(b.steps)
    IN [workflowUUID |-> workflowUUID,
        workflowId |-> workflowId,
        name |-> Trim(ValueOf(b.name)),
        steps |-> [n \in 1..Len(raw) |-> NormalizeStep(raw[n], n)],
        createdAt |-> IF IsPresent(b.createdAt) THEN ValueOf(b.createdAt) ELSE now,
        updatedAt |-> now]

\* ---- Files ----
\* JSON.stringify(wf, null, 2): the text of a record, in the order of its
\* keys: the identifiers and the name, one piece per step, the timestamps.
Serialize(wf) ==
    <<[part |-> "head", workflowUUID |-> wf.workflowUUID,
       workflowId |-> wf.workflowId, name |-> wf.name]>>
    \o [n \in 1..Len(wf.steps) |-> [part |-> "step", step |-> wf.steps[n]]]
    \o <<[part |-> "tail", createdAt |-> wf.createdAt, updatedAt |-> wf.updatedAt]>>

\* JSON.parse(raw) succeeds on the text of one complete record only.
Parses(text) ==
    /\ Len(text) >= 2
    /\ text[1].part = "head"
    /\ text[Len(text)].part = "tail"
    /\ \A i \in 2..(Len(text) - 1) : text[i].part = "step"

Parse(text) ==
    [workflowUUID |-> text[1].workflowUUID,
     workflowId |-> text[1].workflowId,
     name |-> text[1].name,
     steps |-> [n \in 1..(Len(text) - 2) |-> text[n + 1].step],
     createdAt |-> text[Len(text)].createdAt,
     updatedAt |-> text[Len(text)].updatedAt]

\* fs.writeFile(path, text) is two file-system calls: open(path, "w"), which
\* creates the file or truncates it, and a write of the text at offset 0 of
\* whatever the file holds by then.
OpenTruncate(fs, key) == (key :> <<>>) @@ fs
WriteAtStart(old, text) ==
    [i \in 1..(IF Len(old) > Len(text) THEN Len(old) ELSE Len(text)) |->
        IF i <= Len(text) THEN text[i] ELSE old[i]]
WriteData(fs, key, text) ==
    IF key \in DOMAIN fs THEN (key :> WriteAtStart(fs[key], text)) @@ fs
    ELSE fs

\* writeWorkflow(wf), no other request running: the file named after
\* wf.workflowUUID holds the text of wf.
WriteWorkflowUnderId(fs, wf) ==
    WriteData(OpenTruncate(fs, wf.workflowId), wf.workflowId, Serialize(wf))
WriteWorkflow(fs, wf) ==
    WriteData(OpenTruncate(fs, wf.workflowUUID), wf.workflowUUID, Serialize(wf))

\* fs.unlink(path)
Unlink(fs, key) == [k \in DOMAIN fs \ {key} |-> fs[k]]

\* readWorkflow(id): the parsed file of safeId(id), or null when reading or
\* parsing throws.
ReadWorkflow(fs, id) ==
    LET key == SafeId(id)
    IN IF key \in DOMAIN fs /\ Parses(fs[key]) THEN Some(Parse(fs[key])) ELSE Absent

\* listWorkflows: the fields each item is built from
Summary(wf) ==
    [workflowUUID |-> wf.workflowUUID, workflowId |-> wf.workflowId,
     name |-> wf.name, createdAt |-> wf.createdAt, updatedAt |-> wf.updatedAt]

\* items.sort((a, b) => (a.updatedAt < b.updatedAt ? 1 : -1)): no item comes
\* before one with a later updatedAt.  The comparator never answers 0, so
\* the order among equal timestamps is whatever the engine makes of it.
SortedByUpdatedAtAscending(items) ==
    \A i, j \in 1..Len(items) : i < j => ~(items[i].updatedAt > items[j].updatedAt)
SortedByUpdatedAt(items) ==
    \A i, j \in 1..Len(items) : i < j => ~(items[i].updatedAt < items[j].updatedAt)

\* listWorkflows(): one item per *.json file of DATA_DIR, sorted; every
\* result the sort can give.  (JSON.parse throws on a file that is not the
\* text of a record; List tests that first.)
ListWorkflows(fs) ==
    LET keys == DOMAIN fs
        n == Cardinality(keys)
        orders == {p \in [1..n -> keys] : \A i, j \in 1..n : i # j => p[i] # p[j]}
    IN {items \in {[i \in 1..n |-> Summary(Parse(fs[p[i]]))] : p \in orders} :
           SortedByUpdatedAt(items)}

\* ---- Requests ----
\* Identifiers as clients write them: "a", "a/" (which safeId turns into
\* "a") and "w".
IdA == <<"a">>
IdASlash == <<"a", "/">>
IdW == <<"w">>

\* A step of a request body, with the order the caller supplies (or none).
RawStep(order) ==
    [stepId |-> Absent, order |-> order, title |-> Some(<<"T">>),
     description |-> Absent, durationSec |-> Absent, page |-> Absent]
OneStep == <<RawStep(Absent)>>
TwoStepsSwapped == <<RawStep(Some(Whole(2))), RawStep(Some(Whole(1)))>>

\* POST bodies: no body, the empty object, a body with neither a name nor a
\* step, and a plain body together with every body that differs from it in
\* one field (createdAt 0 is an instant before the server started).
EmptyObject ==
    [workflowUUID |-> Absent, workflowId |-> Absent, name |-> Absent,
     steps |-> Absent, createdAt |-> Absent]
BaseBody ==
    [workflowUUID |-> Some(IdA), workflowId |-> Absent, name |-> Some(<<"A">>),
     steps |-> Some(OneStep), createdAt |-> Absent]
PostObjects ==
    {EmptyObject, BaseBody, [BaseBody EXCEPT !.name = Absent, !.steps = Some(<<>>)]}
    \cup {[BaseBody EXCEPT !.workflowUUID = x] : x \in {Absent, Some(IdASlash)}}
    \cup {[BaseBody EXCEPT !.workflowId = Some(IdW)]}
    \cup {[BaseBody EXCEPT !.name = x] : x \in {Absent, Some(<<" ">>), Some(<<" ", "B">>)}}
    \cup {[BaseBody EXCEPT !.steps = x] : x \in {Absent, Some(<<>>), Some(TwoStepsSwapped)}}
    \cup {[BaseBody EXCEPT !.createdAt = Some(0)]}
PostBodies == {Absent} \cup {Some(b) : b \in PostObjects}

\* PATCH bodies: { name?, steps? }
PatchObjects ==
    {[name |-> n, steps |-> Absent] : n \in {Absent, Some(<<" ">>), Some(<<" ", "B">>)}}
    \cup {[name |-> Absent, steps |-> s] : s \in {Some(<<>>), Some(TwoStepsSwapped)}}
    \cup {[name |-> Some(<<" ", "B">>), steps |-> Some(TwoStepsSwapped)]}
PatchBodies == {Absent} \cup {Some(b) : b \in PatchObjects}

\* The :workflowUUID path parameter of GET and DELETE, and of PATCH.
PathIds == {IdA, IdASlash, IdW, NewUUID(1)}
PatchIds == {IdASlash, IdW}

\* ---- State ----
Writers == {"w1", "w2"}
Idle == [pc |-> "idle", op |-> "none", id |-> <<>>, body |-> Absent, wf |-> Absent,
         old |-> Absent]
AllIdle == \A w \in Writers : inflight[w].pc = "idle"

Answer(op, id, body, code, resp) ==
    [op |-> op, id |-> id, body |-> body, status |-> code, resp |-> resp]
NotFound == [error |-> "Not found"]

\* The server has started: DATA_DIR holds no workflow file.
StoreInit ==
    /\ files = <<>>
    /\ clock = 1
    /\ uuids = 0
    /\ served = 0
    /\ inflight = [w \in Writers |-> Idle]
    /\ sLast = Answer("none", <<>>, Absent, 0, [none |-> TRUE])

\* PATCH: the record written, from the record read and the body.
PatchedNameKept(existing, body) == existing.name
PatchedName(existing, body) ==
    IF IsPresent(body) /\ IsPresent(ValueOf(body).name)
       /\ Trim(ValueOf(ValueOf(body).name)) # <<>>
    THEN Trim(ValueOf(ValueOf(body).name))
    ELSE existing.name
PatchedSteps(existing, body) ==
    IF IsPresent(body) /\ IsPresent(ValueOf(body).steps)
    THEN ValueOf(ValueOf(body).steps)
    ELSE existing.steps
Patched(existing, body, now) ==
    [existing EXCEPT !.name = PatchedName(existing, body),
                     !.steps = PatchedSteps(existing, body),
                     !.updatedAt = now]

\* DELETE: the status answered
DeleteStatusAlwaysOk(exists) == 200
DeleteStatus(exists) == IF exists THEN 200 ELSE 404

\* ---- Requests served one at a time ----
\* POST /api/workflows
Post ==
    \E body \in PostBodies :
        /\ AllIdle
        /\ served < MaxRequests
        /\ served' = served + 1
        /\ IF ~ValidateIncoming(body).ok
           THEN /\ sLast' = Answer("POST", <<>>, body, 400,
                                   [error |-> ValidateIncoming(body).error])
                /\ UNCHANGED <<files, uuids>>
           ELSE LET wf == NormalizeWorkflow(ValueOf(body), NewUUID(uuids + 1), clock)
                IN /\ files' = WriteWorkflow(files, wf)
                   /\ uuids' = IF NeedsNewUUID(ValueOf(body)) THEN uuids + 1 ELSE uuids
                   /\ sLast' = Answer("POST", <<>>, body, 201, Parse(Serialize(wf)))
        /\ UNCHANGED <<clock, inflight>>
        /\ UNCHANGED <<runnerVars, editorVars, pageVars, normVars, listVars, saveVars, jsonVars, projVars>>

\* GET /api/workflows/:workflowUUID
Get ==
    \E id \in PathIds :
        /\ served < MaxRequests
        /\ served' = served + 1
        /\ LET wf == ReadWorkflow(files, SafeId(id))
           IN sLast' = IF IsPresent(wf) THEN Answer("GET", id, Absent, 200, ValueOf(wf))
                       ELSE Answer("GET", id, Absent, 404, NotFound)
        /\ UNCHANGED <<files, clock, uuids, inflight>>
        /\ UNCHANGED <<runnerVars, editorVars, pageVars, normVars, listVars, saveVars, jsonVars, projVars>>

\* GET /api/workflows
List ==
    /\ served < MaxRequests
    /\ served' = served + 1
    /\ IF \A k \in DOMAIN files : Parses(files[k])
       THEN \E items \in ListWorkflows(files) :
                sLast' = Answer("LIST", <<>>, Absent, 200, [items |-> items])
       ELSE sLast' = Answer("LIST", <<>>, Absent, 500, [error |-> "Unexpected token"])
    /\ UNCHANGED <<files, clock, uuids, inflight>>
    /\ UNCHANGED <<runnerVars, editorVars, pageVars, normVars, listVars, saveVars, jsonVars, projVars>>

\* DELETE /api/workflows/:workflowUUID
Delete ==
    \E id \in PathIds :
        /\ AllIdle
        /\ served < MaxRequests
        /\ served' = served + 1
        /\ files' = Unlink(files, SafeId(id))
        /\ sLast' = IF DeleteStatus(SafeId(id) \in DOMAIN files) = 200
                    THEN Answer("DELETE", id, Absent, 200, [ok |-> TRUE])
                    ELSE Answer("DELETE", id, Absent, 404, NotFound)
        /\ UNCHANGED <<clock, uuids, inflight>>
        /\ UNCHANGED <<runnerVars, editorVars, pageVars, normVars, listVars, saveVars, jsonVars, projVars>>

\* PATCH /api/workflows/:workflowUUID
Patch ==
    \E id \in PatchIds, body \in PatchBodies :
        /\ AllIdle
        /\ served < MaxRequests
        /\ served' = served + 1
        /\ LET existing == ReadWorkflow(files, SafeId(id))
           IN IF ~IsPresent(existing)
              THEN /\ sLast' = Answer("PATCH", id, body, 404, NotFound)
                   /\ UNCHANGED files
              ELSE LET next == Patched(ValueOf(existing), body, clock)
                   IN /\ files' = WriteWorkflow(files, next)
                      /\ sLast' = Answer("PATCH", id, body, 200, Parse(Serialize(next)))
        /\ UNCHANGED <<clock, uuids, inflight>>
        /\ UNCHANGED <<runnerVars, editorVars, pageVars, normVars, listVars, saveVars, jsonVars, projVars>>

\* Time passes between two requests.
TimePasses ==
    /\ clock < MaxTime
    /\ clock' = clock + 1
    /\ UNCHANGED <<files, uuids, served, inflight, sLast>>
    /\ UNCHANGED <<runnerVars, editorVars, pageVars, normVars, listVars, saveVars, jsonVars, projVars>>

StoreNext ==
    \/ Post
    \/ Get
    \/ List
    \/ Delete
    \/ Patch
    \/ TimePasses

\* ---- Requests running concurrently ----
\* A handler runs alone between two of its awaits; each action below is one
\* such stretch of one of two requests in flight.

\* The valid POST bodies that name their workflow.
RaceBodies == {b \in PostObjects : ValidateIncoming(Some(b)).ok /\ ~NeedsNewUUID(b)}

\* POST up to `await writeWorkflow(wf)`: the record is normalized.
PostBegin ==
    \E w \in Writers, b \in RaceBodies :
        /\ inflight[w].pc = "idle"
        /\ served < MaxRequests
        /\ served' = served + 1
        /\ inflight' = [inflight EXCEPT ![w] =
               [pc |-> "open", op |-> "POST", id |-> <<>>, body |-> Some(b),
                wf |-> Some(NormalizeWorkflow(b, NewUUID(uuids + 1), clock)),
                old |-> ReadWorkflow(files, ValueOf(b.workflowUUID))]]
        /\ UNCHANGED <<files, clock, uuids, sLast>>
        /\ UNCHANGED <<runnerVars, editorVars, pageVars, normVars, listVars, saveVars, jsonVars, projVars>>

\* PATCH up to `await writeWorkflow(next)`: the record is read and merged,
\* or 404 is answered.
PatchBegin ==
    \E w \in Writers, id \in PatchIds, body \in PatchBodies :
        /\ inflight[w].pc = "idle"
        /\ served < MaxRequests
        /\ served' = served + 1
        /\ LET existing == ReadWorkflow(files, SafeId(id))
           IN IF ~IsPresent(existing)
              THEN /\ sLast' = Answer("PATCH", id, body, 404, NotFound)
                   /\ UNCHANGED inflight
              ELSE /\ inflight' = [inflight EXCEPT ![w] =
                          [pc |-> "open", op |-> "PATCH", id |-> id, body |-> body,
                           wf |-> Some(Patched(ValueOf(existing), body, clock)),
                           old |-> existing]]
                   /\ UNCHANGED sLast
        /\ UNCHANGED <<files, clock, uuids>>
        /\ UNCHANGED <<runnerVars, editorVars, pageVars, normVars, listVars, saveVars, jsonVars, projVars>>

\* fs.writeFile, first call: the file is opened for writing and truncated.
WriteOpen ==
    \E w \in Writers :
        /\ inflight[w].pc = "open"
        /\ files' = OpenTruncate(files, ValueOf(inflight[w].wf).workflowUUID)
        /\ inflight' = [inflight EXCEPT ![w].pc = "write"]
        /\ UNCHANGED <<clock, uuids, served, sLast>>
        /\ UNCHANGED <<runnerVars, editorVars, pageVars, normVars, listVars, saveVars, jsonVars, projVars>>

\* fs.writeFile, second call: the text is written; then the handler answers.
WriteCommit ==
    \E w \in Writers :
        /\ inflight[w].pc = "write"
        /\ LET wf == ValueOf(inflight[w].wf)
           IN /\ files' = WriteData(files, wf.workflowUUID, Serialize(wf))
              /\ sLast' = Answer(inflight[w].op, inflight[w].id, inflight[w].body,
                                 IF inflight[w].op = "POST" THEN 201 ELSE 200,
                                 Parse(Serialize(wf)))
        /\ inflight' = [inflight EXCEPT ![w] = Idle]
        /\ UNCHANGED <<clock, uuids, served>>
        /\ UNCHANGED <<runnerVars, editorVars, pageVars, normVars, listVars, saveVars, jsonVars, projVars>>

StoreRaceNext ==
    \/ PostBegin
    \/ PatchBegin
    \/ WriteOpen
    \/ WriteCommit
    \/ Get
    \/ List

\* ----------------------------------------------------------------------
\* Workflow Store: properties
\* ----------------------------------------------------------------------

\* The records the store holds.
Records == {Parse(files[k]) : k \in DOMAIN files}

\* This step is the server answering a request of kind op.
Served(op) == served' = served + 1 /\ sLast'.op = op

\* The previous request was answered and was of kind op.
Answered(op, code) == sLast.op = op /\ sLast.status = code

\* A record without its updatedAt.
ExceptUpdatedAt(wf) == [wf EXCEPT !.updatedAt = 0]

\* Every file but the one of key is as it was.
OtherFilesKept(key) ==
    /\ DOMAIN files' \ {key} = DOMAIN files \ {key}
    /\ \A k \in DOMAIN files \ {key} : files'[k] = files[k]

\* C12 (as claimed): a POST with a valid payload creates the record when
\* there is none for its identifier and replaces the whole record otherwise,
\* touching no other record; the response equals the record now stored; and
\* the same POST issued twice leaves the store with one record for that
\* workflow, equal to the result of the first POST except for updatedAt.
C12_PutIdempotent ==
    [][(Served("POST") /\ sLast'.status = 201) =>
          /\ ReadWorkflow(files', sLast'.resp.workflowUUID) = Some(sLast'.resp)
          /\ OtherFilesKept(sLast'.resp.workflowUUID)
          /\ (Answered("POST", 201) /\ sLast'.body = sLast.body) =>
                /\ DOMAIN files' = DOMAIN files
                /\ ExceptUpdatedAt(sLast'.resp) = ExceptUpdatedAt(sLast.resp)
      ]_vars

\* C13 (as claimed): records are keyed by workflowId: right after a POST
\* answered r, get(r.workflowId) is r; a GET answers the record whose
\* workflowId is the sanitized path identifier, and 404 when no record has
\* it; no request for another identifier changes what a GET answers.
C13_KeyedByWorkflowId ==
    [][/\ (Served("POST") /\ sLast'.status = 201) =>
             /\ ReadWorkflow(files', sLast'.resp.workflowId) = Some(sLast'.resp)
             /\ OtherFilesKept(sLast'.resp.workflowUUID)
       /\ Served("GET") =>
             IF \E r \in Records : r.workflowId = SafeId(sLast'.id)
             THEN /\ sLast'.status = 200
                  /\ sLast'.resp \in Records
                  /\ sLast'.resp.workflowId = SafeId(sLast'.id)
             ELSE sLast'.status = 404
      ]_vars

\* C13 (amended): records are keyed by the sanitized workflowUUID: right
\* after a POST answered r, get(r.workflowUUID) is r; a GET answers exactly
\* the record stored under the sanitized path identifier, and 404 when there
\* is none; a POST, PATCH or DELETE changes no record but the one of its own
\* identifier, and a GET or a list changes none.
C13_KeyedByWorkflowUUID ==
    [][/\ (Served("POST") /\ sLast'.status = 201) =>
             /\ ReadWorkflow(files', sLast'.resp.workflowUUID) = Some(sLast'.resp)
             /\ OtherFilesKept(sLast'.resp.workflowUUID)
       /\ (Served("PATCH") \/ Served("DELETE")) => OtherFilesKept(SafeId(sLast'.id))
       /\ (Served("GET") \/ Served("LIST")) => files' = files
       /\ Served("GET") =>
             IF \E r \in Records : r.workflowUUID = SafeId(sLast'.id)
             THEN /\ sLast'.status = 200
                  /\ sLast'.resp = Parse(files[SafeId(sLast'.id)])
                  /\ sLast'.resp.workflowUUID = SafeId(sLast'.id)
             ELSE sLast'.status = 404
      ]_vars

\* C13 witness: a GET by the unsanitized spelling "a/" answers the record
\* stored under "a", whose workflowId is another identifier.
C13_Witness ==
    /\ Answered("GET", 200)
    /\ sLast.id = IdASlash
    /\ sLast.resp.workflowUUID = IdA
    /\ sLast.resp.workflowId # IdA

\* C14: DELETE removes the record and answers 200 when the sanitized id has
\* one, and answers 404 and leaves the store unchanged otherwise; no other
\* record is touched; a DELETE or a GET of the same id right after a
\* successful DELETE answers 404.
C14_Delete ==
    [][/\ Served("DELETE") =>
             IF SafeId(sLast'.id) \in DOMAIN files
             THEN /\ sLast'.status = 200
                  /\ SafeId(sLast'.id) \notin DOMAIN files'
                  /\ OtherFilesKept(SafeId(sLast'.id))
             ELSE /\ sLast'.status = 404
                  /\ files' = files
       /\ ( /\ Answered("DELETE", 200)
            /\ Served("DELETE") \/ Served("GET")
            /\ SafeId(sLast'.id) = SafeId(sLast.id) ) => sLast'.status = 404
      ]_vars

\* C14 witness: a DELETE by the spelling "a/" removed the record of "a"
\* while another record stays in the store.
C14_Witness ==
    /\ Answered("DELETE", 200)
    /\ sLast.id = IdASlash
    /\ IdA \notin DOMAIN files
    /\ DOMAIN files # {}

\* The fields of a list item.
SummaryFields == {"workflowUUID", "workflowId", "name", "createdAt", "updatedAt"}

\* C15: list answers one summary (identifiers, name and timestamps, not the
\* steps) for every record in the store and nothing else, ordered by
\* updatedAt descending: no item comes before one written later, so an item
\* with the latest updatedAt is first.
C15_List ==
    sLast.op = "LIST" =>
        /\ sLast.status = 200
        /\ LET items == sLast.resp.items
           IN /\ Len(items) = Cardinality(DOMAIN files)
              /\ \A i \in 1..Len(items) :
                    /\ DOMAIN items[i] = SummaryFields
                    /\ \E r \in Records : \A f \in SummaryFields : items[i][f] = r[f]
              /\ \A r \in Records :
                    \E i \in 1..Len(items) : items[i].workflowUUID = r.workflowUUID
              /\ \A i \in 1..(Len(items) - 1) :
                    items[i].updatedAt >= items[i + 1].updatedAt
              /\ \A r \in Records : Len(items) > 0 /\ items[1].updatedAt >= r.updatedAt

\* C15 witness: a list of two records written at different instants, the
\* later one first.
C15_Witness ==
    /\ Answered("LIST", 200)
    /\ Len(sLast.resp.items) = 2
    /\ sLast.resp.items[1].updatedAt > sLast.resp.items[2].updatedAt

\* C16 (as claimed): when two writes to one identifier ran concurrently and
\* both have finished, the stored record is the complete record of the one
\* whose write committed last: never a mixture of the two, never missing.
C16_LastWriteWins ==
    (AllIdle /\ (Answered("POST", 201) \/ Answered("PATCH", 200))) =>
        ReadWorkflow(files, sLast.resp.workflowUUID) = Some(sLast.resp)

\* C17 (as claimed): createdAt is set once: whatever request the server
\* answers, a record that was in the store before and is in it after has
\* the createdAt it had, whatever createdAt the payload carries or omits.
C17_CreatedAtSetOnce ==
    [][\A k \in DOMAIN files \cap DOMAIN files' :
          Parse(files'[k]).createdAt = Parse(files[k]).createdAt]_vars

\* The name and the steps a PATCH body supplies.
SuppliedName == ValueOf(sLast'.body).name
SuppliedSteps == ValueOf(sLast'.body).steps

\* What a PATCH must do apart from the name: 404 and an unchanged store when
\* the identifier has no record; else 200, the stored record is the one
\* answered, steps are the supplied array (or the old steps when none is
\* supplied), identifiers and createdAt are unchanged, updatedAt is the
\* instant of the write, and no other record is touched.
PatchFrame ==
    LET key == SafeId(sLast'.id)
    IN IF key \notin DOMAIN files
       THEN sLast'.status = 404 /\ files' = files
       ELSE LET old == Parse(files[key])
                new == sLast'.resp
            IN /\ sLast'.status = 200
               /\ ReadWorkflow(files', key) = Some(new)
               /\ OtherFilesKept(key)
               /\ new.workflowUUID = old.workflowUUID
               /\ new.workflowId = old.workflowId
               /\ new.createdAt = old.createdAt
               /\ new.updatedAt = clock
               /\ new.steps = IF IsPresent(sLast'.body) /\ IsPresent(SuppliedSteps)
                              THEN ValueOf(SuppliedSteps)
                              ELSE old.steps

\* C18 (as claimed): PATCH on an existing identifier stores and answers the
\* existing record with name and/or steps replaced by the supplied values
\* (an empty or non-string name and a non-array steps are ignored), with
\* identifiers and createdAt unchanged and updatedAt set to the time of the
\* write; PATCH on an identifier with no record answers 404 and creates
\* nothing.
C18_PatchAsSupplied ==
    [][Served("PATCH") =>
          /\ PatchFrame
          /\ SafeId(sLast'.id) \in DOMAIN files =>
                sLast'.resp.name =
                    IF /\ IsPresent(sLast'.body)
                       /\ IsPresent(SuppliedName)
                       /\ ValueOf(SuppliedName) # <<>>
                    THEN ValueOf(SuppliedName)
                    ELSE Parse(files[SafeId(sLast'.id)]).name
      ]_vars

\* C18 (amended): as claimed, except that the name stored is the supplied
\* name with the white space around it trimmed, and that a name of white
\* space only is ignored like an empty one.
C18_PatchTrimsName ==
    [][Served("PATCH") =>
          /\ PatchFrame
          /\ SafeId(sLast'.id) \in DOMAIN files =>
                sLast'.resp.name =
                    IF /\ IsPresent(sLast'.body)
                       /\ IsPresent(SuppliedName)
                       /\ \E i \in 1..Len(ValueOf(SuppliedName)) :
                              ValueOf(SuppliedName)[i] # " "
                    THEN Trim(ValueOf(SuppliedName))
                    ELSE Parse(files[SafeId(sLast'.id)]).name
      ]_vars

\* C18 witness: a PATCH supplying the name " B" and new steps was answered
\* with the name "B", the new steps and a later updatedAt.
C18_Witness ==
    /\ Answered("PATCH", 200)
    /\ IsPresent(sLast.body)
    /\ ValueOf(sLast.body).name = Some(<<" ", "B">>)
    /\ sLast.resp.name = <<"B">>
    /\ sLast.resp.steps = TwoStepsSwapped
    /\ sLast.resp.updatedAt > sLast.resp.createdAt

\* The reason the claim's order of rules gives for an object body.
FirstFailingRule(b) ==
    IF ~IsPresent(b.name) \/ \A i \in 1..Len(ValueOf(b.name)) : ValueOf(b.name)[i] = " "
    THEN "Missing name"
    ELSE IF ~IsPresent(b.steps) THEN "steps must be an array"
    ELSE IF ValueOf(b.steps) = <<>> THEN "steps must not be empty"
    ELSE "none"

\* C19: a POST whose payload is invalid (no body; missing or blank name;
\* steps not an array; empty steps) is answered 400 with the reason of the
\* first failing rule, the name being checked before the steps, and leaves
\* the store unchanged; a payload that breaks no rule is answered 201.
C19_InvalidPost ==
    [][Served("POST") =>
          LET body == sLast'.body
              reason == IF IsPresent(body) THEN FirstFailingRule(ValueOf(body))
                        ELSE "Missing body"
          IN IF reason = "none"
             THEN sLast'.status = 201
             ELSE /\ sLast'.status = 400
                  /\ sLast'.resp = [error |-> reason]
                  /\ files' = files
      ]_vars

\* C19 witness: a POST with neither a name nor a step, sent to a store that
\* holds a record, was answered 400 "Missing name".
C19_Witness ==
    /\ Answered("POST", 400)
    /\ IsPresent(sLast.body)
    /\ ValueOf(sLast.body).name = Absent
    /\ ValueOf(sLast.body).steps = Some(<<>>)
    /\ sLast.resp.error = "Missing name"
    /\ DOMAIN files # {}

\* C20 (as claimed): in every workflow produced by normalization,
\* steps[i].order is i+1 for every index i, whatever order the caller
\* supplied.
C20_OrderIsPosition ==
    Answered("POST", 201) =>
        \A n \in 1..Len(sLast.resp.steps) : sLast.resp.steps[n].order = Some(Whole(n))

\* an identifier made of characters from [A-Za-z0-9_-] only
OnlySafeChars(id) == \A i \in 1..Len(id) : id[i] \in SafeChars

\* the storage keys whose file a step created, removed or rewrote
Touched ==
    {k \in DOMAIN files \cup DOMAIN files' :
        \/ k \notin DOMAIN files
        \/ k \notin DOMAIN files'
        \/ files[k] # files'[k]}

\* C27: every storage key a request uses is sanitized: every file of the
\* store, and every file a POST, PATCH or DELETE creates, rewrites or
\* removes, is under a key made of [A-Za-z0-9_-] only, and a GET or PATCH
\* answered 200 is answered with the record of such a file.
C27_KeysSanitized ==
    [][/\ \A k \in DOMAIN files' : OnlySafeChars(k)
       /\ \A k \in Touched : OnlySafeChars(k)
       /\ (Served("GET") /\ sLast'.status = 200) =>
              \E k \in DOMAIN files : OnlySafeChars(k) /\ sLast'.resp = Parse(files[k])
       /\ (Served("PATCH") /\ sLast'.status = 200) =>
              \E k \in DOMAIN files : OnlySafeChars(k) /\ Touched \subseteq {k}
      ]_vars

\* C27 witness: a POST whose workflowUUID is spelled "a/" was answered 201
\* and its record is the file of the key "a".
C27_Witness ==
    /\ Answered("POST", 201)
    /\ IsPresent(sLast.body)
    /\ ValueOf(sLast.body).workflowUUID = Some(IdASlash)
    /\ DOMAIN files = {IdA}
    /\ Parse(files[IdA]) = sLast.resp

\* The writers that are between their first await and their answer on the
\* file of id, having found a complete record there when they began.
Overwriting(id) ==
    {w \in Writers : /\ inflight[w].pc # "idle"
                     /\ ValueOf(inflight[w].wf).workflowUUID = SafeId(id)
                     /\ IsPresent(inflight[w].old)}

\* A read is answered: the step is a request that leaves the writers alone.
ReadAnswered(op) == served' = served + 1 /\ inflight' = inflight /\ sLast'.op = op

\* C33: a read that runs while a put to an identifier that already has a
\* record is under way observes the complete old record or the complete
\* new one: GET answers 200 with one of the two, never NotFound, and the
\* list is answered with an item for that record.
C33_ReadDuringPut ==
    [][/\ \A id \in PathIds :
              (ReadAnswered("GET") /\ sLast'.id = id /\ Overwriting(id) # {}) =>
                  /\ sLast'.status = 200
                  /\ \E w \in Overwriting(id) :
                         sLast'.resp \in {ValueOf(inflight[w].old), ValueOf(inflight[w].wf)}
       /\ \A id \in PathIds :
              (ReadAnswered("LIST") /\ Overwriting(id) # {}) =>
                  /\ sLast'.status = 200
                  /\ \E i \in 1..Len(sLast'.resp.items) :
                         sLast'.resp.items[i].workflowUUID = SafeId(id)]_vars

\* ======================================================================
\*                          NORMALIZERS
\* ======================================================================

StepLimit == 20   \* .slice(0, 20): the most steps a generated workflow keeps
MaxRawSteps == 2  \* longest list of varied raw steps handed to a normalizer

\* What a call gives back: a value, or the message of the Error it threw.
Returned(v) == [ok |-> TRUE, value |-> Some(v), error |-> ""]
Thrown(msg) == [ok |-> FALSE, value |-> Absent, error |-> msg]

\* ---- normalizeGeneratedWorkflow ----
\* The parsed model output is Absent (not an object) or Some([title, steps]);
\* steps is Some(list) exactly when it is an array, and an entry of the list
\* is Absent (null, a falsy entry) or Some(step object).

\* wf.steps.filter(Boolean).slice(0, 20)
Retained(entries) ==
    LET truthy == SelectSeq(entries, IsPresent)
    IN SubSeq(truthy, 1, IF Len(truthy) < StepLimit THEN Len(truthy) ELSE StepLimit)

\* typeof s.title === "string" ? s.title.trim() : ""
GeneratedTitle(s) == IF IsPresent(s.title) THEN Trim(ValueOf(s.title)) ELSE <<>>

\* the step the map callback returns, its title being non-empty
GeneratedStep(s) ==
    [title |-> GeneratedTitle(s),
     description |-> IF IsPresent(s.description)
                     THEN Some(Trim(ValueOf(s.description))) ELSE Absent,
     durationSec |-> IF IsPresent(s.durationSec) /\ ValueOf(s.durationSec) > 0
                     THEN Some(RoundOf(ValueOf(s.durationSec)))
                     ELSE Absent,
     page |-> IF IsPresent(s.page) /\ ValueOf(s.page) >= Whole(1)
              THEN Some(FloorOf(ValueOf(s.page)))
              ELSE Absent]

NormalizeGeneratedWorkflow(raw) ==
    IF ~IsPresent(raw) THEN Thrown("Claude returned non-object JSON.")
    ELSE LET wf == ValueOf(raw)
         IN IF ~IsPresent(wf.steps) \/ Len(ValueOf(wf.steps)) = 0
            THEN Thrown("Claude response invalid: 'steps' is missing or empty.")
            ELSE LET kept == Retained(ValueOf(wf.steps))
                 IN IF \E i \in 1..Len(kept) : GeneratedTitle(ValueOf(kept[i])) = <<>>
                    THEN Thrown("Claude produced a step without a title.")
                    ELSE Returned(
                             [title |-> IF IsPresent(wf.title)
                                        THEN Some(Trim(ValueOf(wf.title))) ELSE Absent,
                              steps |-> [i \in 1..Len(kept) |->
                                            GeneratedStep(ValueOf(kept[i]))]])

\* onGenerate: id: `step-${idx + 1}` for each step of the answer
GeneratedStepIds(ss) == [i \in 1..Len(ss) |-> StepIdAt(i)]

\* ---- the put path: validateIncoming, then normalizeWorkflow ----
NormalizePosted(b, fresh, now) ==
    IF ValidateIncoming(Some(b)).ok
    THEN Returned(NormalizeWorkflow(b, fresh, now))
    ELSE Thrown(ValidateIncoming(Some(b)).error)

\* A stored workflow sent back as a request body: every field it has is a
\* field of the body, with the value it has.
AsBody(wf) ==
    [workflowUUID |-> Some(wf.workflowUUID), workflowId |-> Some(wf.workflowId),
     name |-> Some(wf.name), steps |-> Some(wf.steps),
     createdAt |-> Some(wf.createdAt)]

\* ---- Inputs ----
\* Numbers a caller may send for durationSec and page, in quarters:
\* -1, 0, 0.25, 0.5, 1 and 1.5.
RawNumbers == {0 - Whole(1), 0, 1, 2, Whole(1), Whole(1) + 2}

\* The plain step and every step that differs from it in one field.
BaseStep == RawStep(Absent)
StepVariants ==
    {BaseStep}
    \cup {[BaseStep EXCEPT !.stepId = Some(x)] :
              x \in {IdA, IdASlash, <<"/">>, StepIdAt(2)}}
    \cup {[BaseStep EXCEPT !.title = x] : x \in {Absent, Some(<<" ">>), Some(<<" ", "B">>)}}
    \cup {[BaseStep EXCEPT !.durationSec = Some(q)] : q \in RawNumbers}
    \cup {[BaseStep EXCEPT !.page = Some(q)] : q \in RawNumbers}

\* n plain steps, the i-th titled with the numeral of i
NumberedSteps(n) == [i \in 1..n |-> [BaseStep EXCEPT !.title = Some(Numeral(i))]]

\* Bodies handed to the put path.
NormalizeBodies ==
    PostObjects
    \cup {[BaseBody EXCEPT !.steps = Some(ss)] :
              ss \in SeqsUpTo(StepVariants, MaxRawSteps)}
    \cup {[BaseBody EXCEPT !.steps = Some(NumberedSteps(n))] :
              n \in (StepLimit - 1)..(StepLimit + 1)}
    \cup {[BaseBody EXCEPT !.workflowUUID = Some(<<"/">>)]}

\* What the model's answer may parse to: a non-object, or an object.
GeneratedObjects ==
    {[title |-> Some(<<" ", "B">>), steps |-> Absent]}
    \cup {[title |-> Absent, steps |-> Some(es)] :
              es \in SeqsUpTo({Absent} \cup {Some(s) : s \in StepVariants},
                              MaxRawSteps)}
    \cup {[title |-> Absent,
           steps |-> Some([i \in 1..n |-> Some(NumberedSteps(n)[i])])] :
              n \in (StepLimit - 1)..(StepLimit + 1)}
    \cup {[title |-> Absent,
           steps |-> Some(<<Absent>> \o [i \in 1..StepLimit |->
                                            Some(NumberedSteps(StepLimit)[i])])]}

\* ---- State ----
NormIdle == nFn = "none" /\ nIn = Absent /\ nOut = Absent /\ nAgain = Absent

NormInit ==
    /\ \/ nFn = "normalizeWorkflow" /\ nIn \in NormalizeBodies
       \/ nFn = "normalizeGeneratedWorkflow" /\ nIn \in {Absent} \cup {Some(o) : o \in GeneratedObjects}
    /\ nOut = Absent
    /\ nAgain = Absent

\* POST /api/workflows up to the write: validateIncoming, normalizeWorkflow.
ApplyNormalizeWorkflow ==
    /\ nFn = "normalizeWorkflow"
    /\ nOut = Absent
    /\ nOut' = Some(NormalizePosted(nIn, NewUUID(1), 1))
    /\ UNCHANGED <<nFn, nIn, nAgain>>
    /\ UNCHANGED <<runnerVars, editorVars, pageVars, storeVars, listVars, saveVars, jsonVars, projVars>>

\* POST /api/generate-workflow after the parse: normalizeGeneratedWorkflow.
ApplyNormalizeGeneratedWorkflow ==
    /\ nFn = "normalizeGeneratedWorkflow"
    /\ nOut = Absent
    /\ nOut' = Some(NormalizeGeneratedWorkflow(nIn))
    /\ UNCHANGED <<nFn, nIn, nAgain>>
    /\ UNCHANGED <<runnerVars, editorVars, pageVars, storeVars, listVars, saveVars, jsonVars, projVars>>

\* The workflow POST answered with is posted again, one instant later.
ApplyNormalizeWorkflowAgain ==
    /\ nFn = "normalizeWorkflow"
    /\ IsPresent(nOut)
    /\ ValueOf(nOut).ok
    /\ nAgain = Absent
    /\ nAgain' = Some(NormalizePosted(AsBody(ValueOf(ValueOf(nOut).value)),
                                      NewUUID(2), 2))
    /\ UNCHANGED <<nFn, nIn, nOut>>
    /\ UNCHANGED <<runnerVars, editorVars, pageVars, storeVars, listVars, saveVars, jsonVars, projVars>>

NormalizeNext ==
    \/ ApplyNormalizeWorkflow
    \/ ApplyNormalizeGeneratedWorkflow
    \/ ApplyNormalizeWorkflowAgain

\* ----------------------------------------------------------------------
\* Normalizers: properties
\* ----------------------------------------------------------------------

\* the normalizer returned a workflow, and the workflow it returned
Produced == IsPresent(nOut) /\ ValueOf(nOut).ok
Normalized == ValueOf(ValueOf(nOut).value)

Distinct(ids) == \A i, j \in 1..Len(ids) : i # j => ids[i] # ids[j]

\* C21: in every workflow a normalizer produced, the step ids are pairwise
\* distinct: on the put path the stepId values normalizeWorkflow stored,
\* on the generation path the ids onGenerate gives the returned steps.
C21_StepIdsDistinct ==
    Produced =>
        IF nFn = "normalizeWorkflow"
        THEN Distinct([i \in 1..Len(Normalized.steps) |-> Normalized.steps[i].stepId])
        ELSE Distinct(GeneratedStepIds(Normalized.steps))

\* the step objects of the input, falsy entries left out
InputSteps ==
    IF nFn = "normalizeWorkflow" THEN ValueOf(nIn.steps)
    ELSE LET truthy == SelectSeq(ValueOf(ValueOf(nIn).steps), IsPresent)
         IN [i \in 1..Len(truthy) |-> ValueOf(truthy[i])]

\* the title of a step of the outcome
TitleOf(s) == IF nFn = "normalizeWorkflow" THEN ValueOf(s.title) ELSE s.title

HasTitle(s) == IsPresent(s.title) /\ Trim(ValueOf(s.title)) # <<>>

\* C23: a workflow a normalizer produced has between 1 and 20 steps: they
\* are the first 20 step objects of the input (all of them when there are
\* fewer) in their original order, and an input without any fails.
C23_OneToTwentySteps ==
    Produced =>
        LET out == Normalized.steps
        IN /\ Len(out) >= 1
           /\ Len(out) <= StepLimit
           /\ Len(out) = (IF Len(InputSteps) < StepLimit THEN Len(InputSteps)
                          ELSE StepLimit)
           /\ \A i \in 1..Len(out) :
                  HasTitle(InputSteps[i]) =>
                      TitleOf(out[i]) = Trim(ValueOf(InputSteps[i].title))

\* the input has a steps array
HasSteps ==
    IF nFn = "normalizeWorkflow" THEN IsPresent(nIn.steps)
    ELSE IsPresent(nIn) /\ IsPresent(ValueOf(nIn).steps)

\* one of the steps the normalizer retains has no title once trimmed
SomeRetainedUntitled ==
    /\ HasSteps
    /\ \E i \in 1..Len(InputSteps) : i <= StepLimit /\ ~HasTitle(InputSteps[i])

\* C24: when a retained step has an empty title after coercion and
\* trimming, normalization fails as a whole: no workflow is produced.
C24_UntitledStepFails ==
    (IsPresent(nOut) /\ SomeRetainedUntitled) => ~ValueOf(nOut).ok

\* a positive whole number, in quarters
PositiveInteger(q) == q >= Whole(1) /\ q % Whole(1) = 0

\* C25: in a step of a produced workflow, durationSec when present is an
\* integer >= 1 and page when present is an integer >= 1; a source value
\* that is out of range (durationSec <= 0, page < 1) is omitted.
C25_DurationAndPage ==
    Produced =>
        \A i \in 1..Len(Normalized.steps) :
            LET out == Normalized.steps[i]
                in == InputSteps[i]
            IN /\ IsPresent(out.durationSec) => PositiveInteger(ValueOf(out.durationSec))
               /\ IsPresent(out.page) => PositiveInteger(ValueOf(out.page))
               /\ (IsPresent(in.durationSec) /\ ValueOf(in.durationSec) <= 0)
                      => out.durationSec = Absent
               /\ (IsPresent(in.page) /\ ValueOf(in.page) < Whole(1))
                      => out.page = Absent
               /\ ~IsPresent(in.durationSec) => out.durationSec = Absent
               /\ ~IsPresent(in.page) => out.page = Absent

\* C26: normalizing a produced workflow once more succeeds and gives the
\* same workflow in every field except updatedAt.
C26_Idempotent ==
    IsPresent(nAgain) =>
        /\ ValueOf(nAgain).ok
        /\ ExceptUpdatedAt(ValueOf(ValueOf(nAgain).value)) = ExceptUpdatedAt(Normalized)

\* ----------------------------------------------------------------------
\* Workflow Store: the shape of the stored records
\* ----------------------------------------------------------------------

\* a normalized step at position n: a non-empty title, a sanitized id and
\* order equal to the position
CanonicalStep(s, n) ==
    /\ IsPresent(s.title) /\ ValueOf(s.title) # <<>>
    /\ IsPresent(s.stepId) /\ OnlySafeChars(ValueOf(s.stepId))
    /\ s.order = Some(Whole(n))

\* C28: every record of the store has the canonical shape: a non-empty
\* name and between 1 and 20 steps, each a normalized step.
C28_CanonicalRecords ==
    \A r \in Records :
        /\ r.name # <<>>
        /\ Len(r.steps) >= 1
        /\ Len(r.steps) <= StepLimit
        /\ \A n \in 1..Len(r.steps) : CanonicalStep(r.steps[n], n)

\* ======================================================================
\*                          WORKFLOW EDITOR (step list)
\* ======================================================================

\* The component is not rendered.
ListIdle ==
    /\ weSteps = <<>>
    /\ editingId = Absent
    /\ editText = <<>>
    /\ editTimer = 0
    /\ wLast = [op |-> "Init", src |-> <<>>, target |-> 0]

MaxListSteps == 2  \* longest step list the component is given or grows to
MaxEditTimer == 1  \* largest timer typed into the edit form

\* the text addStep gives a new step (shortened)
NewStepText == "New instruction step"

\* .map((s, i) => ({ ...s, id: i + 1 }))
ReindexKeepIds(ss) == ss
Reindex(ss) == [i \in 1..Len(ss) |-> [ss[i] EXCEPT !.id = i]]

\* the positions 1..n, each step coming from where it is
Unmoved(n) == [i \in 1..n |-> i]

\* where the step of position p is after an operation whose result takes
\* its steps from the positions src; 0 when it is gone (or p is 0)
MovedTo(src, p) ==
    IF \E j \in 1..Len(src) : src[j] = p /\ p # 0
    THEN CHOOSE j \in 1..Len(src) : src[j] = p
    ELSE 0

\* the row of editingId is on display: its form replaces the row's buttons
EditingRowShown == \E i \in 1..Len(weSteps) : editingId = Some(weSteps[i].id)

\* The component is given steps whose ids are 1..n in position order, as
\* the mock data has them.
ListInit ==
    /\ weSteps \in {[i \in 1..n |-> [id |-> i, text |-> "A", timer |-> 0]] :
                        n \in 0..MaxListSteps}
    /\ editingId = Absent
    /\ editText = <<>>
    /\ editTimer = 0
    /\ wLast = [op |-> "Init", src |-> <<>>, target |-> 0]

\* handleReorder(newOrder): the dragged row changes place with a neighbour.
WeHandleReorder ==
    \E i \in 1..(Len(weSteps) - 1) :
        LET src == [Unmoved(Len(weSteps)) EXCEPT ![i] = i + 1, ![i + 1] = i]
            newOrder == [j \in 1..Len(weSteps) |-> weSteps[src[j]]]
        IN /\ weSteps' = Reindex(newOrder)
           /\ wLast' = [op |-> "handleReorder", src |-> src, target |-> MovedTo(src, wLast.target)]
           /\ UNCHANGED <<editingId, editText, editTimer>>
           /\ UNCHANGED <<runnerVars, editorVars, pageVars, storeVars, normVars, saveVars, jsonVars, projVars>>

\* startEdit(step): the button of a row that is not being edited
WeStartEdit ==
    \E i \in 1..Len(weSteps) :
        /\ editingId # Some(weSteps[i].id)
        /\ editingId' = Some(weSteps[i].id)
        /\ editText' = weSteps[i].text
        /\ editTimer' = weSteps[i].timer
        /\ wLast' = [op |-> "startEdit", src |-> Unmoved(Len(weSteps)), target |-> i]
        /\ UNCHANGED weSteps
        /\ UNCHANGED <<runnerVars, editorVars, pageVars, storeVars, normVars, saveVars, jsonVars, projVars>>

\* onChange of the form's inputs: setEditText, setEditTimer
WeChangeEdit ==
    \E t \in {"A", "B", NewStepText}, d \in 0..MaxEditTimer :
        /\ EditingRowShown
        /\ editText' = t
        /\ editTimer' = d
        /\ wLast' = [op |-> "onChange", src |-> Unmoved(Len(weSteps)),
                     target |-> wLast.target]
        /\ UNCHANGED <<weSteps, editingId>>
        /\ UNCHANGED <<runnerVars, editorVars, pageVars, storeVars, normVars, saveVars, jsonVars, projVars>>

\* saveEdit: the Save button of the form
WeSaveEdit ==
    /\ EditingRowShown
    /\ weSteps' = [i \in 1..Len(weSteps) |->
                      IF Some(weSteps[i].id) = editingId
                      THEN [weSteps[i] EXCEPT !.text = editText, !.timer = editTimer]
                      ELSE weSteps[i]]
    /\ editingId' = Absent
    /\ wLast' = [op |-> "saveEdit", src |-> Unmoved(Len(weSteps)), target |-> 0]
    /\ UNCHANGED <<editText, editTimer>>
    /\ UNCHANGED <<runnerVars, editorVars, pageVars, storeVars, normVars, saveVars, jsonVars, projVars>>

\* the Cancel button of the form: setEditingId(null)
WeCancelEdit ==
    /\ EditingRowShown
    /\ editingId' = Absent
    /\ wLast' = [op |-> "cancel", src |-> Unmoved(Len(weSteps)), target |-> 0]
    /\ UNCHANGED <<weSteps, editText, editTimer>>
    /\ UNCHANGED <<runnerVars, editorVars, pageVars, storeVars, normVars, saveVars, jsonVars, projVars>>

\* deleteStep(step.id): the button of a row that is not being edited
WeDeleteStep ==
    \E i \in 1..Len(weSteps) :
        LET id == weSteps[i].id
            kept == SelectSeq(Unmoved(Len(weSteps)), LAMBDA j : weSteps[j].id # id)
            filtered == [j \in 1..Len(kept) |-> weSteps[kept[j]]]
        IN /\ editingId # Some(id)
           /\ weSteps' = Reindex(filtered)
           /\ wLast' = [op |-> "deleteStep", src |-> kept, target |-> MovedTo(kept, wLast.target)]
           /\ UNCHANGED <<editingId, editText, editTimer>>
           /\ UNCHANGED <<runnerVars, editorVars, pageVars, storeVars, normVars, saveVars, jsonVars, projVars>>

\* addStep: the new step comes from nowhere (0)
WeAddStep ==
    /\ Len(weSteps) < MaxListSteps
    /\ weSteps' = Append(weSteps, [id |-> Len(weSteps) + 1, text |-> NewStepText,
                                   timer |-> 0])
    /\ wLast' = [op |-> "addStep", src |-> Append(Unmoved(Len(weSteps)), 0),
                 target |-> wLast.target]
    /\ UNCHANGED <<editingId, editText, editTimer>>
    /\ UNCHANGED <<runnerVars, editorVars, pageVars, storeVars, normVars, saveVars, jsonVars, projVars>>

ListNext ==
    \/ WeHandleReorder
    \/ WeStartEdit
    \/ WeChangeEdit
    \/ WeSaveEdit
    \/ WeCancelEdit
    \/ WeDeleteStep
    \/ WeAddStep

\* ----------------------------------------------------------------------
\* WorkflowEditor: properties
\* ----------------------------------------------------------------------

\* C22: a step's id is stable: after a reorder, a delete or an add, every
\* step that was in the list before still has the id it had.
C22_StepIdStable ==
    [][wLast'.op \in {"handleReorder", "deleteStep", "addStep"} =>
           \A j \in 1..Len(weSteps') :
               wLast'.src[j] # 0 => weSteps'[j].id = weSteps[wLast'.src[j]].id]_vars

\* C32: saveEdit writes the edited text and timer to exactly the step on
\* which startEdit was invoked, and to no other step, whatever was deleted,
\* added or reordered in between.
C32_SaveEditTarget ==
    [][wLast'.op = "saveEdit" =>
           /\ wLast.target # 0
           /\ weSteps'[wLast.target].text = editText
           /\ weSteps'[wLast.target].timer = editTimer
           /\ \A j \in 1..Len(weSteps) : j # wLast.target => weSteps'[j] = weSteps[j]]_vars

MaxGenerations == 2  \* workflows one Editor session generates

\* crypto.randomUUID() in the browser: the n-th identifier it hands out
NewClientUUID(n) == <<"c">> \o Numeral(n)

\* pdf.name of every file the user picks
PdfName == <<"m", ".", "p", "d", "f">>

\* pdf.name.replace(/\.pdf$/i, "")   (the model's names are lower case)
StripPdf(name) ==
    IF Len(name) >= 4 /\ SubSeq(name, Len(name) - 3, Len(name)) = <<".", "p", "d", "f">>
    THEN SubSeq(name, 1, Len(name) - 4)
    ELSE name

\* wf.title || pdf.name.replace(/\.pdf$/i, "")
WorkflowTitle(wfTitle, name) ==
    IF TruthyText(wfTitle) THEN ValueOf(wfTitle) ELSE StripPdf(name)

\* nextSteps, without the id (`step-${idx + 1}`, see GeneratedStepIds)
NextSteps(ss) ==
    [i \in 1..Len(ss) |->
        [title |-> IF ss[i].title # <<>> THEN ss[i].title ELSE StepTitleAt(i),
         description |-> IF TruthyText(ss[i].description) THEN ss[i].description
                         ELSE Absent,
         durationSec |-> ss[i].durationSec,
         page |-> ss[i].page]]

\* the payload of saveMutation.mutate(...)
SavePayload(uuid, name, ss, now) ==
    [workflowUUID |-> Some(uuid), workflowId |-> Some(uuid), name |-> Some(name),
     steps |-> Some([i \in 1..Len(ss) |->
                        [stepId |-> Some(GeneratedStepIds(ss)[i]),
                         order |-> Some(Whole(i)),
                         title |-> Some(ss[i].title),
                         description |-> ss[i].description,
                         durationSec |-> ss[i].durationSec,
                         page |-> ss[i].page]]),
     createdAt |-> Some(now)]

\* ---- POST /api/generate-workflow ----
\* What the call of the model comes to: no API key on the server, a failed
\* call, empty text, text without a JSON object, or a parsed value.
ClaudeOutputs ==
    {[kind |-> k, parsed |-> Absent] : k \in {"noKey", "callFails", "empty", "prose"}}
    \cup {[kind |-> "json", parsed |-> p] :
             p \in {Absent,
                    Some([title |-> Absent, steps |-> Some(<<Absent>>)]),
                    Some([title |-> Absent,
                          steps |-> Some(<<Some([BaseStep EXCEPT !.title = Absent])>>)]),
                    Some([title |-> Some(<<" ", "B">>),
                          steps |-> Some(<<Some(BaseStep)>>)]),
                    Some([title |-> Absent,
                          steps |-> Some(<<Some([BaseStep EXCEPT !.page = Some(Whole(1))]),
                                           Some(BaseStep)>>)])}}

\* The response: res.json(workflow), or status 500 with the error message.
Failure(msg) == [status |-> 500, error |-> msg, title |-> Absent, steps |-> <<>>]
GenerateResponse(out) ==
    IF out.kind = "noKey" THEN Failure("Server is missing ANTHROPIC_API_KEY")
    ELSE IF out.kind = "callFails" THEN Failure("Failed to generate workflow.")
    ELSE IF out.kind = "empty" THEN Failure("Claude returned empty output.")
    ELSE IF out.kind = "prose" THEN Failure("No JSON object found in Claude output.")
    ELSE LET r == NormalizeGeneratedWorkflow(out.parsed)
         IN IF r.ok
            THEN [status |-> 200, error |-> "", title |-> ValueOf(r.value).title,
                  steps |-> ValueOf(r.value).steps]
            ELSE Failure(r.error)

\* generateWorkflowFromPdf: if (!res.ok) throw
ResponseOkAlways(response) == TRUE
ResponseOk(response) == response.status = 200

\* saveMutation's onError: it logs, and leaves genError as it is
OnSaveErrorRaises(err) == Some("Auto-save failed")
OnSaveError(err) == err

\* no request of generateWorkflowFromPdf is under way
NoCall == [stage |-> "none", pdf |-> 0, response |-> Failure("")]

SaveInit ==
    /\ gPdf = 0
    /\ gGenerating = FALSE
    /\ gTitle = <<>>
    /\ gSteps = <<>>
    /\ genError = Absent
    /\ savedUUID = Absent
    /\ saveMutation = [status |-> "idle", variables |-> Absent]
    /\ genCall = NoCall
    /\ minted = 0
    /\ gLast = "Init"

\* onPickFile(file)
PickFile ==
    \E file \in 0..MaxFiles :
        /\ gLast' = "PickFile"
        /\ genError' = Absent
        /\ gSteps' = <<>>
        /\ gTitle' = <<>>
        /\ savedUUID' = Absent
        /\ gPdf' = file
        /\ UNCHANGED <<gGenerating, saveMutation, genCall, minted>>
        /\ UNCHANGED <<runnerVars, editorVars, pageVars, storeVars, normVars, listVars, jsonVars, projVars>>

\* onGenerate up to the fetch of generateWorkflowFromPdf
GenerateCall ==
    /\ gPdf # 0
    /\ ~gGenerating
    /\ minted < MaxGenerations
    /\ gLast' = "GenerateCall"
    /\ gGenerating' = TRUE
    /\ genError' = Absent
    /\ genCall' = [stage |-> "sent", pdf |-> gPdf, response |-> Failure("")]
    /\ UNCHANGED <<gPdf, gTitle, gSteps, savedUUID, saveMutation, minted>>
    /\ UNCHANGED <<runnerVars, editorVars, pageVars, storeVars, normVars, listVars, jsonVars, projVars>>

\* The server handles POST /api/generate-workflow.
GenerateRoute ==
    \E out \in ClaudeOutputs :
        /\ genCall.stage = "sent"
        /\ gLast' = "GenerateRoute"
        /\ genCall' = [stage |-> "answered", pdf |-> genCall.pdf,
                       response |-> GenerateResponse(out)]
        /\ UNCHANGED <<gPdf, gGenerating, gTitle, gSteps, genError, savedUUID,
                       saveMutation, minted>>
        /\ UNCHANGED <<runnerVars, editorVars, pageVars, storeVars, normVars, listVars, jsonVars, projVars>>

\* onGenerate after the await, the response being ok: the try block
GenerateApply ==
    /\ gGenerating
    /\ genCall.stage = "answered"
    /\ ResponseOk(genCall.response)
    /\ LET workflowTitle == WorkflowTitle(genCall.response.title, PdfName)
           nextSteps == NextSteps(genCall.response.steps)
           workflowUUID == NewClientUUID(minted + 1)
       IN /\ gTitle' = workflowTitle
          /\ gSteps' = nextSteps
          /\ savedUUID' = Some(workflowUUID)
          /\ saveMutation' = [status |-> "pending",
                              variables |-> Some(SavePayload(workflowUUID, workflowTitle,
                                                             nextSteps, clock))]
    /\ minted' = minted + 1
    /\ gGenerating' = FALSE
    /\ genCall' = NoCall
    /\ gLast' = "GenerateApply"
    /\ UNCHANGED <<gPdf, genError>>
    /\ UNCHANGED <<runnerVars, editorVars, pageVars, storeVars, normVars, listVars, jsonVars, projVars>>

\* onGenerate after the await, the call having thrown (the request failed
\* on its way, or the response is not ok): catch and finally
GenerateCatch ==
    /\ gGenerating
    /\ \/ genCall.stage = "sent"
       \/ genCall.stage = "answered" /\ ~ResponseOk(genCall.response)
    /\ genError' = Some(IF genCall.stage = "answered" THEN genCall.response.error
                        ELSE "Failed to fetch")
    /\ gGenerating' = FALSE
    /\ genCall' = NoCall
    /\ gLast' = "GenerateCatch"
    /\ UNCHANGED <<gPdf, gTitle, gSteps, savedUUID, saveMutation, minted>>
    /\ UNCHANGED <<runnerVars, editorVars, pageVars, storeVars, normVars, listVars, jsonVars, projVars>>

\* The server handles the POST /api/workflows of postWorkflow, and the
\* mutation settles on its answer.
SaveRoute ==
    /\ saveMutation.status = "pending"
    /\ gLast' = "SaveRoute"
    /\ IF ValidateIncoming(saveMutation.variables).ok
       THEN /\ files' = WriteWorkflow(files,
                            NormalizeWorkflow(ValueOf(saveMutation.variables),
                                              NewUUID(uuids + 1), clock))
            /\ saveMutation' = [saveMutation EXCEPT !.status = "success"]
            /\ UNCHANGED genError
       ELSE /\ UNCHANGED files
            /\ saveMutation' = [saveMutation EXCEPT !.status = "error"]
            /\ genError' = OnSaveError(genError)
    /\ UNCHANGED <<gPdf, gGenerating, gTitle, gSteps, savedUUID, genCall, minted>>
    /\ UNCHANGED <<clock, uuids, served, inflight, sLast>>
    /\ UNCHANGED <<runnerVars, editorVars, pageVars, normVars, listVars, jsonVars, projVars>>

\* postWorkflow throws before the server has the request (no API base, or
\* the fetch fails): onError
SaveError ==
    /\ saveMutation.status = "pending"
    /\ gLast' = "SaveError"
    /\ saveMutation' = [saveMutation EXCEPT !.status = "error"]
    /\ genError' = OnSaveError(genError)
    /\ UNCHANGED <<gPdf, gGenerating, gTitle, gSteps, savedUUID, genCall, minted>>
    /\ UNCHANGED <<runnerVars, editorVars, pageVars, storeVars, normVars, listVars, jsonVars, projVars>>

\* WorkflowEditor's onUpdate = setSteps, called by deleteStep of row i
\* (the component is rendered while there are steps)
StepsUpdate ==
    \E i \in 1..Len(gSteps) :
        /\ gLast' = "StepsUpdate"
        /\ gSteps' = [j \in 1..(Len(gSteps) - 1) |->
                         IF j < i THEN gSteps[j] ELSE gSteps[j + 1]]
        /\ UNCHANGED <<gPdf, gGenerating, gTitle, genError, savedUUID, saveMutation,
                       genCall, minted>>
        /\ UNCHANGED <<runnerVars, editorVars, pageVars, storeVars, normVars, listVars, jsonVars, projVars>>

SaveNext ==
    \/ PickFile
    \/ GenerateCall
    \/ GenerateRoute
    \/ GenerateApply
    \/ GenerateCatch
    \/ SaveRoute
    \/ SaveError
    \/ StepsUpdate

\* ----------------------------------------------------------------------
\* Editor generation and auto-save: properties
\* ----------------------------------------------------------------------

\* the step issues a save request: saveMutation.mutate(...) is called
SaveIssued == saveMutation' # saveMutation /\ saveMutation'.status = "pending"

\* C29: a failed generation persists nothing: the generate route writes no
\* record whatever its answer; when the call fails or is answered with an
\* error the Editor aborts (genError set, generating cleared, title, steps
\* and savedUUID as before) without a save request; and a save request is
\* issued only in a step that applies a response with status 200.
C29_FailedGenerationPersistsNothing ==
    [][/\ gLast' \in {"GenerateRoute", "GenerateCatch"} => files' = files
       /\ gLast' = "GenerateCatch" =>
              /\ saveMutation' = saveMutation
              /\ IsPresent(genError')
              /\ ~gGenerating'
              /\ gTitle' = gTitle /\ gSteps' = gSteps /\ savedUUID' = savedUUID
       /\ SaveIssued =>
              /\ genCall.stage = "answered"
              /\ genCall.response.status = 200
              /\ files' = files
      ]_vars

\* C29 witness: a generation has just failed on an error response while
\* the record an earlier generation saved is in the store.
C29_Witness ==
    /\ gLast = "GenerateCatch"
    /\ genError = Some("Claude produced a step without a title.")
    /\ saveMutation.status = "success"
    /\ DOMAIN files = {NewClientUUID(1)}

\* the step in which the pending save request fails
SaveFails == saveMutation.status = "pending" /\ saveMutation'.status = "error"

\* what the failed request carried
FailedPayload == ValueOf(saveMutation.variables)

\* C30: a failed auto-save leaves the display alone: the step in which the
\* save request fails changes neither title, steps nor genError; when it
\* follows the generation directly, title and steps are those of the
\* generated workflow (the ones the request carried) and genError is null;
\* and whenever steps are shown after a failed save they can be edited.
C30_FailedSaveKeepsDisplay ==
    [][/\ SaveFails =>
              /\ gTitle' = gTitle /\ gSteps' = gSteps /\ genError' = genError
              /\ gLast = "GenerateApply" =>
                     /\ genError' = Absent
                     /\ Some(gTitle') = FailedPayload.name
                     /\ Len(gSteps') = Len(ValueOf(FailedPayload.steps))
                     /\ \A i \in 1..Len(gSteps') :
                            /\ Some(gSteps'[i].title) = ValueOf(FailedPayload.steps)[i].title
                            /\ gSteps'[i].page = ValueOf(FailedPayload.steps)[i].page
                            /\ gSteps'[i].durationSec
                                   = ValueOf(FailedPayload.steps)[i].durationSec
       /\ (saveMutation.status = "error" /\ Len(gSteps) > 0) => ENABLED StepsUpdate
      ]_vars

\* C30 witness: the save of a generated two-step workflow failed, no
\* generation error is shown, and a step was deleted afterwards.
C30_Witness ==
    /\ saveMutation.status = "error"
    /\ gLast = "StepsUpdate"
    /\ genError = Absent
    /\ Len(gSteps) = 1
    /\ gTitle = StripPdf(PdfName)

\* C34: the title, steps and saved workflow id on display belong to the
\* currently selected PDF: the result of a generation is applied only
\* while the file it was started for is still the selected one.
C34_ResultsOfSelectedPdf ==
    [][gLast' = "GenerateApply" => genCall.pdf = gPdf]_vars

\* C35: a workflow id is on display (savedUUID non-null) only for a
\* workflow whose save has succeeded: the store holds a record under it.
C35_SavedUUIDIsStored ==
    IsPresent(savedUUID) => IsPresent(ReadWorkflow(files, ValueOf(savedUUID)))

\* ======================================================================
\*                          EXTRACTION REPAIR
\* ======================================================================
\* extractJsonFromText (src/server/index.ts:149-169), applied to one text
\* the model wrote.

JsonIdle == jIn = Absent /\ jOut = Absent

\* A text is a sequence of characters, each a one-character string, with
\* two longer tokens: Fence stands for three backticks, and a JsonTag is
\* the word "json" in one of its spellings.
Fence == "fence"
JsonTags == {"json", "JSON"}
NL == "\n"
Quote == "\""
Backslash == "\\"
JsonWs == {" ", NL}

\* text.charAt(i) of a 1-based position; "" beyond the end
At(t, i) == IF i >= 1 /\ i <= Len(t) THEN t[i] ELSE ""

\* ---- JSON.parse, on numbers, strings and objects of them ----
JsonNumber(digits) == [kind |-> "number", str |-> digits, members |-> <<>>]
JsonString(chars) == [kind |-> "string", str |-> chars, members |-> <<>>]
JsonObject(members) == [kind |-> "object", str |-> <<>>, members |-> members]
Parsed(v, next) == [ok |-> TRUE, value |-> v, next |-> next]
NoParse == [ok |-> FALSE, value |-> JsonNumber(<<>>), next |-> 0]

RECURSIVE SkipWs(_, _)
SkipWs(t, i) == IF At(t, i) \in JsonWs THEN SkipWs(t, i + 1) ELSE i

\* the characters of a string literal after its opening quote: an escape
\* is decoded, a raw line break is a syntax error
RECURSIVE ScanString(_, _, _)
ScanString(t, i, acc) ==
    IF i > Len(t) \/ t[i] = NL THEN NoParse
    ELSE IF t[i] = Quote THEN Parsed(JsonString(acc), i + 1)
    ELSE IF t[i] = Backslash
         THEN IF At(t, i + 1) = "n" THEN ScanString(t, i + 2, Append(acc, NL))
              ELSE IF At(t, i + 1) \in {Quote, Backslash}
                   THEN ScanString(t, i + 2, Append(acc, t[i + 1]))
                   ELSE NoParse
    ELSE ScanString(t, i + 1, Append(acc, t[i]))

RECURSIVE ScanNumber(_, _, _)
ScanNumber(t, i, acc) ==
    IF At(t, i) = "1" THEN ScanNumber(t, i + 1, Append(acc, "1"))
    ELSE Parsed(JsonNumber(acc), i)

RECURSIVE ParseValue(_, _)
RECURSIVE ParseMembers(_, _, _)
\* the members of an object from position i, after "{" or ","
ParseMembers(t, i, acc) ==
    IF At(t, i) # Quote THEN NoParse
    ELSE LET key == ScanString(t, i + 1, <<>>)
             colon == SkipWs(t, key.next)
             val == ParseValue(t, SkipWs(t, colon + 1))
             after == SkipWs(t, val.next)
             all == Append(acc, [key |-> key.value.str, value |-> val.value])
         IN IF ~key.ok \/ At(t, colon) # ":" \/ ~val.ok THEN NoParse
            ELSE IF At(t, after) = "," THEN ParseMembers(t, SkipWs(t, after + 1), all)
            ELSE IF At(t, after) = "}" THEN Parsed(JsonObject(all), after + 1)
            ELSE NoParse

ParseValue(t, i) ==
    IF At(t, i) = "{"
    THEN LET j == SkipWs(t, i + 1)
         IN IF At(t, j) = "}" THEN Parsed(JsonObject(<<>>), j + 1)
            ELSE ParseMembers(t, j, <<>>)
    ELSE IF At(t, i) = Quote THEN ScanString(t, i + 1, <<>>)
    ELSE IF At(t, i) = "1" THEN ScanNumber(t, i, <<>>)
    ELSE NoParse

SyntaxError == "SyntaxError"
JsonParse(t) ==
    LET v == ParseValue(t, SkipWs(t, 1))
    IN IF v.ok /\ SkipWs(t, v.next) = Len(t) + 1 THEN Returned(v.value)
       ELSE Thrown(SyntaxError)

\* ---- extractJsonFromText ----
\* text.replace(/<fence>json/gi, "")
RECURSIVE RemoveJsonFences(_)
RemoveJsonFences(t) ==
    IF t = <<>> THEN <<>>
    ELSE IF Head(t) = Fence /\ At(t, 2) \in JsonTags THEN RemoveJsonFences(SubSeq(t, 3, Len(t)))
    ELSE <<Head(t)>> \o RemoveJsonFences(Tail(t))

\* .replace(/<fence>/g, "")
RemoveFences(t) == SelectSeq(t, LAMBDA c : c # Fence)

\* .trim()
RECURSIVE TrimWs(_)
TrimWs(t) ==
    IF t # <<>> /\ Head(t) \in JsonWs THEN TrimWs(Tail(t))
    ELSE IF t # <<>> /\ t[Len(t)] \in JsonWs THEN TrimWs(SubSeq(t, 1, Len(t) - 1))
    ELSE t

Cleaned(text) == TrimWs(RemoveFences(RemoveJsonFences(text)))

\* s.replace(/\r?\n/g, "\\n")
RECURSIVE RepairNewlines(_)
RepairNewlines(s) ==
    IF s = <<>> THEN <<>>
    ELSE (IF Head(s) = NL THEN <<Backslash, "n">> ELSE <<Head(s)>>)
         \o RepairNewlines(Tail(s))

\* tryParse
TryParse(s) ==
    IF JsonParse(s).ok THEN JsonParse(s) ELSE JsonParse(RepairNewlines(s))

\* cleaned.indexOf(c) and cleaned.lastIndexOf(c), 1-based; 0 is "not found"
IndexOf(s, c) ==
    IF \E i \in 1..Len(s) : s[i] = c
    THEN CHOOSE i \in 1..Len(s) : s[i] = c /\ \A j \in 1..(i - 1) : s[j] # c
    ELSE 0
LastIndexOf(s, c) ==
    IF \E i \in 1..Len(s) : s[i] = c
    THEN CHOOSE i \in 1..Len(s) : s[i] = c /\ \A j \in (i + 1)..Len(s) : s[j] # c
    ELSE 0

NoJsonObject == "No JSON object found in Claude output."
ExtractJsonFromText(text) ==
    LET cleaned == Cleaned(text)
        first == IndexOf(cleaned, "{")
        last == LastIndexOf(cleaned, "}")
    IN IF TryParse(cleaned).ok THEN TryParse(cleaned)
       ELSE IF first = 0 \/ last = 0 \/ last <= first THEN Thrown(NoJsonObject)
       ELSE TryParse(SubSeq(cleaned, first, last))

\* ---- the texts the model may write ----
\* what stands where a JSON object is expected: objects written compactly,
\* over several lines, with a raw line break inside a string, with braces
\* inside a string, nested; and texts that are no object at all
ObjectTexts ==
    { <<"{", "}">>,
      <<"{", Quote, "x", Quote, ":", "1", "}">>,
      <<"{", NL, " ", Quote, "x", Quote, ":", " ", "1", NL, "}">>,
      <<"{", Quote, "x", Quote, ":", Quote, "x", NL, "x", Quote, "}">>,
      <<"{", Quote, "x", Quote, ":", Quote, "x", Backslash, "n", "x", Quote, "}">>,
      <<"{", Quote, "x", Quote, ":", Quote, "}", "{", Quote, "}">>,
      <<"{", Quote, "x", Quote, ":", "1", ",", Quote, "n", Quote, ":", Quote, "x", Quote, "}">>,
      <<"{", Quote, "x", Quote, ":", "{", Quote, "n", Quote, ":", "1", "}", "}">> }
OtherTexts ==
    { <<"x">>, <<"1">>, <<Quote, "x", Quote>>, <<"}", " ", "{">>,
      <<"{", "x", "}">>, <<"{", Quote, "x", Quote, ":", "1">>,
      <<"x", "}">>, <<"{", NL, Quote, "x", Quote, ":", Quote, "x", NL, "x", Quote, NL, "}">> }

\* the commentary around the object
Prefaces == { <<"x", ":", NL>>, <<"x", " ", "1", " ">>, <<"x", " ", "{", "x", "}", ":", NL>> }
Closings == { <<NL, "x">>, <<" ", "x", " ", "1">> }

Bare(t) == t
Fenced(t, tag) == <<Fence>> \o tag \o <<NL>> \o t \o <<NL, Fence>>
InProse(t, before, after) == before \o t \o after

ExtractionInputs ==
    {[base |-> t, form |-> "bare", text |-> Bare(t)] : t \in ObjectTexts \cup OtherTexts}
    \cup {[base |-> t, form |-> "fenced", text |-> Fenced(t, tag)] :
              t \in ObjectTexts \cup OtherTexts, tag \in {<<>>} \cup {<<g>> : g \in JsonTags}}
    \cup {[base |-> t, form |-> "prose", text |-> InProse(t, b, a)] :
              t \in ObjectTexts \cup OtherTexts, b \in Prefaces, a \in Closings}

JsonInit ==
    /\ jIn \in {Some(i) : i \in ExtractionInputs}
    /\ jOut = Absent

ApplyExtractJsonFromText ==
    /\ jOut = Absent
    /\ jOut' = Some(ExtractJsonFromText(ValueOf(jIn).text))
    /\ UNCHANGED jIn
    /\ UNCHANGED <<runnerVars, editorVars, pageVars, storeVars, normVars, listVars, saveVars,
                   projVars>>

JsonNext == ApplyExtractJsonFromText

\* ----------------------------------------------------------------------
\* Extraction Repair: properties
\* ----------------------------------------------------------------------

\* the text is a JSON object, as JSON.parse reads it
IsObjectText(t) == JsonParse(t).ok /\ ValueOf(JsonParse(t).value).kind = "object"

\* the cleaned text holds a "{" with a "}" somewhere after it
HasBracePair(s) == \E i, j \in 1..Len(s) : i < j /\ s[i] = "{" /\ s[j] = "}"

\* C31: extractJsonFromText recovers the same object from a bare JSON
\* object, from that object in a fenced code block and from that object
\* with prose before and after it; the direct parse, the newline-repair
\* parse and the slice from the first "{" to the last "}" are tried in
\* that order and the first success wins; and it fails with "No JSON
\* object found" when the text holds no "{" ... "}" pair.
C31_RepairJson ==
    IsPresent(jOut) =>
        LET in == ValueOf(jIn)
            out == ValueOf(jOut)
            cleaned == Cleaned(in.text)
            slice == SubSeq(cleaned, IndexOf(cleaned, "{"), LastIndexOf(cleaned, "}"))
        IN /\ IsObjectText(in.base) => out = JsonParse(in.base)
           /\ JsonParse(cleaned).ok => out = JsonParse(cleaned)
           /\ (~JsonParse(cleaned).ok /\ JsonParse(RepairNewlines(cleaned)).ok)
                  => out = JsonParse(RepairNewlines(cleaned))
           /\ (~TryParse(cleaned).ok /\ HasBracePair(cleaned) /\ JsonParse(slice).ok)
                  => out = JsonParse(slice)
           /\ ~HasBracePair(cleaned) => out = Thrown(NoJsonObject)

\* ======================================================================
\*                          PROJECT LIST
\* ======================================================================
\* ProjectProvider (src/src/context/ProjectContext.tsx): the project list,
\* its three operations and the processing timers addProject arms.

ProjIdle ==
    /\ projects = <<>>
    /\ timers = <<>>
    /\ dateNow = 0
    /\ added = 0
    /\ pLast = [op |-> "none", id |-> <<>>]

MaxAdds == 2   \* calls of addProject in one session
MaxTicks == 1  \* milliseconds that pass on the clock of Date.now()

\* the instant the session starts at, as Date.now() counts it (any instant
\* whose digits are not the id of a mock project)
Epoch == 4

\* A step of a project: its text is left out.
StepsOf(timerValues) == [i \in 1..Len(timerValues) |-> [id |-> i, timer |-> timerValues[i]]]

\* mockProjects
MockProjects ==
    <<[id |-> <<"1">>, title |-> "IKEA Micke Desk", stepsCount |-> 8, status |-> "ready",
       steps |-> StepsOf(<<0, 120, 90, 180, 150, 120, 200, 60>>)],
      [id |-> <<"2">>, title |-> "Sourdough Bread", stepsCount |-> 6, status |-> "ready",
       steps |-> StepsOf(<<1800, 300, 7200, 180, 0, 2700>>)],
      [id |-> <<"3">>, title |-> "PCB Soldering Protocol", stepsCount |-> 5, status |-> "ready",
       steps |-> StepsOf(<<60, 30, 300, 600, 120>>)]>>

\* the steps the processing simulation gives a project
ProcessedSteps == StepsOf(<<0, 60, 300, 60>>)

\* addProject: newProject
NewProject(title, now) ==
    [id |-> Numeral(now), title |-> title, stepsCount |-> 0, status |-> "processing",
     steps |-> <<>>]

\* the setTimeout callback: { ...p, status: "ready", stepsCount: 4, steps: [...] }
ProcessedNotReady(p) == [p EXCEPT !.stepsCount = 4, !.steps = ProcessedSteps]
Processed(p) == [p EXCEPT !.status = "ready", !.stepsCount = 4, !.steps = ProcessedSteps]

\* updateSteps: { ...p, steps, stepsCount: steps.length }
WithStepsOnly(p, ss) == [p EXCEPT !.steps = ss]
WithSteps(p, ss) == [p EXCEPT !.steps = ss, !.stepsCount = Len(ss)]

\* prev.map((p) => (p.id === id ? changed : p)), changed[i] being what the
\* callback makes of prev[i]
MapProject(prev, id, changed) ==
    [i \in 1..Len(prev) |-> IF prev[i].id = id THEN changed[i] ELSE prev[i]]

\* the identifiers and step lists the operations are called with
ProjectIds == {<<"1">>} \cup {Numeral(Epoch + n) : n \in 0..MaxTicks}
Titles == {"Bookshelf"}
UpdatedSteps == {<<>>, StepsOf(<<30>>)}

ProjInit ==
    /\ projects = MockProjects
    /\ timers = <<>>
    /\ dateNow = Epoch
    /\ added = 0
    /\ pLast = [op |-> "none", id |-> <<>>]

\* addProject(title, category); the timer it arms remembers newProject.id
\* (and, as history, whether that project has been deleted since)
AddProject ==
    \E title \in Titles :
        /\ added < MaxAdds
        /\ added' = added + 1
        /\ projects' = <<NewProject(title, dateNow)>> \o projects
        /\ timers' = Append(timers, [id |-> Numeral(dateNow), gone |-> FALSE])
        /\ pLast' = [op |-> "addProject", id |-> Numeral(dateNow)]
        /\ UNCHANGED dateNow
        /\ UNCHANGED <<runnerVars, editorVars, pageVars, storeVars, normVars, listVars,
                       saveVars, jsonVars>>

\* the callback of the oldest timer runs (all timers have the same delay)
ProcessingComplete ==
    /\ timers # <<>>
    /\ projects' = MapProject(projects, Head(timers).id,
                              [i \in 1..Len(projects) |-> Processed(projects[i])])
    /\ timers' = Tail(timers)
    /\ pLast' = [op |-> "complete", id |-> Head(timers).id]
    /\ UNCHANGED <<dateNow, added>>
    /\ UNCHANGED <<runnerVars, editorVars, pageVars, storeVars, normVars, listVars,
                   saveVars, jsonVars>>

\* updateSteps(projectId, steps)
UpdateSteps ==
    \E id \in ProjectIds, ss \in UpdatedSteps :
        /\ projects' = MapProject(projects, id,
                                  [i \in 1..Len(projects) |-> WithSteps(projects[i], ss)])
        /\ pLast' = [op |-> "updateSteps", id |-> id]
        /\ UNCHANGED <<timers, dateNow, added>>
        /\ UNCHANGED <<runnerVars, editorVars, pageVars, storeVars, normVars, listVars,
                       saveVars, jsonVars>>

\* deleteProject(id)
DeleteProject ==
    \E id \in ProjectIds :
        /\ projects' = SelectSeq(projects, LAMBDA p : p.id # id)
        /\ timers' = [i \in 1..Len(timers) |->
                         IF timers[i].id = id /\ \E j \in 1..Len(projects) : projects[j].id = id
                         THEN [timers[i] EXCEPT !.gone = TRUE] ELSE timers[i]]
        /\ pLast' = [op |-> "deleteProject", id |-> id]
        /\ UNCHANGED <<dateNow, added>>
        /\ UNCHANGED <<runnerVars, editorVars, pageVars, storeVars, normVars, listVars,
                       saveVars, jsonVars>>

\* a millisecond passes
DateAdvances ==
    /\ dateNow < Epoch + MaxTicks
    /\ dateNow' = dateNow + 1
    /\ pLast' = [op |-> "none", id |-> <<>>]
    /\ UNCHANGED <<projects, timers, added>>
    /\ UNCHANGED <<runnerVars, editorVars, pageVars, storeVars, normVars, listVars,
                   saveVars, jsonVars>>

ProjNext ==
    \/ AddProject
    \/ ProcessingComplete
    \/ UpdateSteps
    \/ DeleteProject
    \/ DateAdvances

\* ----------------------------------------------------------------------
\* Project list: properties
\* ----------------------------------------------------------------------

\* the identifiers addProject can give within the bounds
AddedIds == {Numeral(Epoch + n) : n \in 0..MaxTicks}

HasProject(list, id) == \E i \in 1..Len(list) : list[i].id = id

\* C37: a deleted project never reappears: deleteProject(id) leaves no
\* project with that id in the list, and when the processing timer of a
\* project that was deleted in the meantime runs, the list does not change.
C37_DeletedStaysOut ==
    [][/\ pLast'.op = "deleteProject" => ~HasProject(projects', pLast'.id)
       /\ (timers # <<>> /\ timers' = Tail(timers) /\ Head(timers).gone)
              => projects' = projects]_vars

\* a project of the list is being processed / every project with the id is
\* ready and has its 4 steps (none, when it has been deleted)
Processing(id) ==
    \E i \in 1..Len(projects) : projects[i].id = id /\ projects[i].status = "processing"
Settled(id) ==
    \A i \in 1..Len(projects) :
        projects[i].id = id => (/\ projects[i].status = "ready"
                                /\ projects[i].stepsCount = 4
                                /\ Len(projects[i].steps) = 4)

\* the step is a call of addProject: the new project is first in the list
StartsProcessing ==
    added' = added + 1 =>
        /\ projects'[1].status = "processing"
        /\ projects'[1].steps = <<>>
        /\ Tail(projects') = projects

\* no project of the list goes from "ready" to "processing"
ReadyStaysReady ==
    /\ pLast'.op \in {"complete", "updateSteps"} =>
           \A i \in 1..Len(projects) :
               /\ Len(projects') = Len(projects)
               /\ projects[i].status = "ready" => projects'[i].status = "ready"
    /\ pLast'.op = "deleteProject" =>
           \A j \in 1..Len(projects') : \E i \in 1..Len(projects) : projects'[j] = projects[i]

\* C38: a project created by addProject starts in status "processing" with
\* no steps; unless it is deleted first it eventually is "ready" with 4
\* steps; and no project goes from "ready" back to "processing".
C38_ProcessingThenReady ==
    /\ [][StartsProcessing /\ ReadyStaysReady]_vars
    /\ \A id \in AddedIds : Processing(id) ~> Settled(id)

\* the timer of an added project has run and the project is ready with its
\* 4 steps
C38_Witness ==
    /\ pLast.op = "complete"
    /\ pLast.id \in AddedIds
    /\ HasProject(projects, pLast.id)
    /\ Settled(pLast.id)

\* C39: in every reachable state each project's stepsCount is the length
\* of its steps.
C39_StepsCountIsLength ==
    \A i \in 1..Len(projects) : projects[i].stepsCount = Len(projects[i].steps)

\* updateSteps has given a project a step list of a length no project
\* starts with or is processed to
C39_Witness ==
    /\ pLast.op = "updateSteps"
    /\ \E i \in 1..Len(projects) :
           /\ projects[i].id = pLast.id
           /\ Len(projects[i].steps) = 1
           /\ projects[i].stepsCount = 1

\* ======================================================================
\*                          SPECIFICATIONS
\* ======================================================================

\* The Step Runtime, for every step list within the bounds.
InitRunner == RunnerInit /\ EditorInit /\ PageIdle /\ StoreInit /\ NormIdle /\ ListIdle /\ SaveInit
    /\ JsonIdle /\ ProjIdle
SpecRunner == InitRunner /\ [][RunnerNext]_vars

\* The Editor; the runtime is not mounted.
InitEditor == RunnerInit /\ steps = <<>> /\ EditorInit /\ PageIdle /\ StoreInit /\ NormIdle /\ ListIdle /\ SaveInit
    /\ JsonIdle /\ ProjIdle
SpecEditor == InitEditor /\ [][EditorNext]_vars

\* The run page: the runtime is mounted on a fetched workflow.
InitRunPage == RunnerInit /\ steps = <<>> /\ EditorInit /\ PageInit /\ StoreInit /\ NormIdle /\ ListIdle /\ SaveInit
    /\ JsonIdle /\ ProjIdle
SpecRunPage == InitRunPage /\ [][RunPageNext]_vars

\* The Workflow Store, its requests served one at a time.
InitStore == RunnerInit /\ steps = <<>> /\ EditorInit /\ PageIdle /\ StoreInit /\ NormIdle /\ ListIdle /\ SaveInit
    /\ JsonIdle /\ ProjIdle
SpecStore == InitStore /\ [][StoreNext]_vars

\* The Workflow Store with two requests in flight.
InitStoreRace == RunnerInit /\ steps = <<>> /\ EditorInit /\ PageIdle /\ StoreInit /\ NormIdle /\ ListIdle /\ SaveInit
    /\ JsonIdle /\ ProjIdle
SpecStoreRace == InitStoreRace /\ [][StoreRaceNext]_vars

\* The normalizers, each applied to one input within the bounds.
InitNormalize ==
    RunnerInit /\ steps = <<>> /\ EditorInit /\ PageIdle /\ StoreInit /\ NormInit
    /\ ListIdle /\ SaveInit
    /\ JsonIdle /\ ProjIdle
SpecNormalize == InitNormalize /\ [][NormalizeNext]_vars

\* The WorkflowEditor component on a step list within the bounds.
InitList ==
    RunnerInit /\ steps = <<>> /\ EditorInit /\ PageIdle /\ StoreInit /\ NormIdle
    /\ ListInit /\ SaveInit
    /\ JsonIdle /\ ProjIdle
SpecList == InitList /\ [][ListNext]_vars

\* The Editor generating and saving workflows, with the server behind it.
InitSave ==
    RunnerInit /\ steps = <<>> /\ EditorInit /\ PageIdle /\ StoreInit /\ NormIdle
    /\ ListIdle /\ SaveInit
    /\ JsonIdle /\ ProjIdle
SpecSave == InitSave /\ [][SaveNext]_vars

\* extractJsonFromText, applied to one text within the bounds.
InitJson ==
    RunnerInit /\ steps = <<>> /\ EditorInit /\ PageIdle /\ StoreInit /\ NormIdle
    /\ ListIdle /\ SaveInit /\ JsonInit /\ ProjIdle
SpecJson == InitJson /\ [][JsonNext]_vars

\* The project list under its operations and timers.
InitProjects ==
    RunnerInit /\ steps = <<>> /\ EditorInit /\ PageIdle /\ StoreInit /\ NormIdle
    /\ ListIdle /\ SaveInit /\ JsonIdle /\ ProjInit
SpecProjects == InitProjects /\ [][ProjNext]_vars

\* The same, every armed timer running in the end: the event loop runs the
\* callback of a timer once its delay has passed.
SpecProjectsLive == InitProjects /\ [][ProjNext]_vars /\ WF_vars(ProcessingComplete)

====
